---------------------------- MODULE Spec2Model ----------------------------
(***************************************************************************)
(* Model of the socialmedia-cli content pipeline:                          *)
(*   pipelines/daily_digest.py  run                                        *)
(*   collectors/web_search.py   collect                                    *)
(*   writers/tweet_writer.py    draft, refine, rank                        *)
(*   drafts/manager.py          save                                       *)
(*   core/storage.py            save_jsonl                                 *)
(*   llm/base.py                register, get_client                       *)
(*                                                                         *)
(* Python strings are sequences of one-character strings, so that split,   *)
(* strip, startswith, slicing, int() and float() are computed as Python    *)
(* computes them.                                                          *)
(***************************************************************************)
EXTENDS Integers, Sequences, FiniteSets, TLC

(***************************************************************************)
(* Bounds of the model.                                                    *)
(***************************************************************************)
\* n, the number of tweets asked of draft, ranges over 0..MaxTweets
MaxTweets == 2
\* the clock (day granularity) ranges over 1..MaxDay
MaxDay == 2
\* uuid4 is drawn at most MaxIds times
MaxIds == 4
\* login is called at most MaxLogins times in one process
MaxLogins == 2

(***************************************************************************)
(* Python values.                                                          *)
(***************************************************************************)
\* Optional[T]: None is the empty sequence, a present value v is <<v>>
None == << >>
Some(v) == <<v>>

\* an exception object: its class and str(e)
Err(kind, msg) == [kind |-> kind, msg |-> msg]

\* the outcome of a call: a returned value or a raised exception
Ret(v) == [ok |-> TRUE, val |-> v]
Raise(kind, msg) == [ok |-> FALSE, err |-> Err(kind, msg)]

(***************************************************************************)
(* str methods, on sequences of characters.                                *)
(***************************************************************************)
Whitespace == {" ", "\t", "\r", "\n"}
Digits == {"0", "1", "2", "3", "4", "5", "6", "7", "8", "9"}

\* value of one decimal digit
DigitVal(c) ==
    CASE c = "0" -> 0 [] c = "1" -> 1 [] c = "2" -> 2 [] c = "3" -> 3
      [] c = "4" -> 4 [] c = "5" -> 5 [] c = "6" -> 6 [] c = "7" -> 7
      [] c = "8" -> 8 [] c = "9" -> 9

\* s[k:] with 0-based k >= 0
SliceFrom(s, k) == IF k >= Len(s) THEN << >> ELSE SubSeq(s, k + 1, Len(s))

\* s.startswith(p)
startswith(s, p) == Len(s) >= Len(p) /\ SubSeq(s, 1, Len(p)) = p

RECURSIVE lstrip(_)
lstrip(s) ==
    IF s # << >> /\ Head(s) \in Whitespace THEN lstrip(Tail(s)) ELSE s

RECURSIVE rstrip(_)
rstrip(s) ==
    IF s # << >> /\ s[Len(s)] \in Whitespace
    THEN rstrip(SubSeq(s, 1, Len(s) - 1)) ELSE s

\* s.strip()
strip(s) == rstrip(lstrip(s))

\* s.split(sep) for a one-character sep: every occurrence separates, and
\* empty pieces are kept ("a::b" gives three pieces, "" gives [""])
RECURSIVE splitAcc(_, _, _, _)
splitAcc(s, sep, cur, acc) ==
    IF s = << >> THEN Append(acc, cur)
    ELSE IF Head(s) = sep
         THEN splitAcc(Tail(s), sep, << >>, Append(acc, cur))
         ELSE splitAcc(Tail(s), sep, Append(cur, Head(s)), acc)

split(s, sep) == splitAcc(s, sep, << >>, << >>)

\* s.split() without argument: runs of whitespace separate, no empty piece
RECURSIVE splitWsAcc(_, _, _)
splitWsAcc(s, cur, acc) ==
    IF s = << >> THEN (IF cur = << >> THEN acc ELSE Append(acc, cur))
    ELSE IF Head(s) \in Whitespace
         THEN splitWsAcc(Tail(s), << >>,
                         IF cur = << >> THEN acc ELSE Append(acc, cur))
         ELSE splitWsAcc(Tail(s), Append(cur, Head(s)), acc)

splitWs(s) == splitWsAcc(s, << >>, << >>)

\* sep.join(parts)
RECURSIVE join(_, _)
join(sep, parts) ==
    IF parts = << >> THEN << >>
    ELSE IF Len(parts) = 1 THEN parts[1]
    ELSE parts[1] \o sep \o join(sep, Tail(parts))

\* value of a non-empty run of decimal digits
RECURSIVE DigitsVal(_)
DigitsVal(s) ==
    IF s = << >> THEN 0
    ELSE DigitsVal(SubSeq(s, 1, Len(s) - 1)) * 10 + DigitVal(s[Len(s)])

IsDigits(s) == s # << >> /\ \A k \in 1..Len(s) : s[k] \in Digits

RECURSIVE Pow10(_)
Pow10(k) == IF k = 0 THEN 1 ELSE 10 * Pow10(k - 1)

\* int(s): surrounding whitespace and a sign are accepted, then digits only
int(s) ==
    LET t == strip(s)
        neg == t # << >> /\ Head(t) = "-"
        signed == t # << >> /\ Head(t) \in {"-", "+"}
        body == IF signed THEN Tail(t) ELSE t
    IN IF IsDigits(body)
       THEN Ret(IF neg THEN 0 - DigitsVal(body) ELSE DigitsVal(body))
       ELSE Raise("ValueError", <<"invalid literal for int()">>)

\* a float that was written as a decimal literal is the exact fraction
\* num / den, den a power of ten, in lowest decimal form
RECURSIVE NormFloat(_, _)
NormFloat(num, den) ==
    IF den > 1 /\ num % 10 = 0 THEN NormFloat(num \div 10, den \div 10)
    ELSE [num |-> num, den |-> den]

\* float(s) for decimal literals: digits, optionally a point and digits,
\* optionally signed
float(s) ==
    LET t == strip(s)
        neg == t # << >> /\ Head(t) = "-"
        signed == t # << >> /\ Head(t) \in {"-", "+"}
        body == IF signed THEN Tail(t) ELSE t
        ps == split(body, ".")
        sgn(v) == IF neg THEN 0 - v ELSE v
    IN IF Len(ps) = 1 /\ IsDigits(ps[1])
       THEN Ret(NormFloat(sgn(DigitsVal(ps[1])), 1))
       ELSE IF Len(ps) = 2 /\ (ps[1] # << >> \/ ps[2] # << >>)
                /\ (ps[1] = << >> \/ IsDigits(ps[1]))
                /\ (ps[2] = << >> \/ IsDigits(ps[2]))
       THEN Ret(NormFloat(sgn(DigitsVal(ps[1]) * Pow10(Len(ps[2]))
                              + DigitsVal(ps[2])),
                          Pow10(Len(ps[2]))))
       ELSE Raise("ValueError", <<"could not convert string to float">>)

(***************************************************************************)
(* String constants of the sources.                                        *)
(***************************************************************************)
NL == "\n"
SP == <<" ">>
TWEET == <<"T", "W", "E", "E", "T">>
TWEET_COLON == <<"T", "W", "E", "E", "T", ":">>
BULLET_DASH == <<"-">>
\* the three characters U+00E2 U+20AC U+00A2 that web_search.py tests for
BULLET_MOJIBAKE == <<"U+00E2", "U+20AC", "U+00A2">>

(***************************************************************************)
(* writers/tweet_writer.py                                                 *)
(***************************************************************************)
\* a DraftTweet that is born with a score and no reason
DraftTweetScored(id, text) ==
    [id |-> id, text |-> text, score |-> Some([num |-> 0, den |-> 1]),
     reason |-> None]

\* DraftTweet(id, text, score=None, reason=None)
DraftTweet(id, text) ==
    [id |-> id, text |-> text, score |-> None, reason |-> None]

\* the lines of a response that carry the marker, in order
RECURSIVE draftLines(_)
draftLines(lines) ==
    IF lines = << >> THEN << >>
    ELSE IF startswith(strip(Head(lines)), TWEET_COLON)
         THEN <<Head(lines)>> \o draftLines(Tail(lines))
         ELSE draftLines(Tail(lines))

\* a draft that gives every candidate of a response the same id
draftTweetsSameId(ls, n, uuid0) ==
    [k \in 1..(IF n < Len(ls) THEN n ELSE Len(ls)) |->
        DraftTweet(uuid0 + 1, strip(SliceFrom(ls[k], 6)))]

\* tweets.append(DraftTweet(id=str(uuid.uuid4()), text=line[6:].strip()))
\* for the marker lines ls, then return tweets[:n]
draftTweets(ls, n, uuid0) ==
    [k \in 1..(IF n < Len(ls) THEN n ELSE Len(ls)) |->
        DraftTweet(uuid0 + k, strip(SliceFrom(ls[k], 6)))]

\* draft(bullets, n, chars, llm): g is the outcome of llm.generate(prompt),
\* uuid0 the number of uuids drawn so far; the k-th marker line gets the
\* k-th fresh uuid
draft(bullets, n, g, uuid0) ==
    IF ~g.ok
    THEN Raise("WriterError", <<"Failed to draft tweets: ">> \o g.err.msg)
    ELSE Ret(draftTweets(draftLines(split(g.val, NL)), n, uuid0))

\* the number of uuid4() calls draft makes
draftUuids(g) == IF g.ok THEN Len(draftLines(split(g.val, NL))) ELSE 0

\* a refine that drops the last candidate
refineDropsLast(tweets) ==
    Ret(IF tweets = << >> THEN tweets ELSE SubSeq(tweets, 1, Len(tweets) - 1))

\* refine(tweets): the TODO stub returns its argument
refine(tweets) == Ret(tweets)

\* the value of the sort key  t.score or 0  (None and 0.0 are falsy)
Zero == [num |-> 0, den |-> 1]
scoreOrZero(t) == IF t.score = None THEN Zero ELSE t.score[1]

\* a >= b for floats
FloatGE(a, b) == a.num * b.den >= b.num * a.den

\* sorted(tweets, key=lambda t: t.score or 0, reverse=True): descending by
\* key; list.sort keeps elements with equal keys in their original order,
\* also under reverse=True
RECURSIVE sortedInsert(_, _)
sortedInsert(acc, t) ==
    IF acc = << >> THEN <<t>>
    ELSE IF FloatGE(scoreOrZero(Head(acc)), scoreOrZero(t))
         THEN <<Head(acc)>> \o sortedInsert(Tail(acc), t)
         ELSE <<t>> \o acc

RECURSIVE sortedAcc(_, _)
sortedAcc(tweets, acc) ==
    IF tweets = << >> THEN acc
    ELSE sortedAcc(Tail(tweets), sortedInsert(acc, Head(tweets)))

sorted(tweets) == sortedAcc(tweets, << >>)

\* tweets[idx] for a Python index: a negative idx counts from the end
pyIndex(tweets, idx) == IF idx >= 0 THEN idx + 1 ELSE Len(tweets) + idx + 1

\* tweets[idx].score = score; tweets[idx].reason = reason
rankAssign(tweets, k, score, reason) ==
    IF ~score.ok THEN score
    ELSE IF k < 1 THEN Raise("IndexError", <<"list index out of range">>)
    ELSE Ret([tweets EXCEPT ![k].score = Some(score.val),
                            ![k].reason = Some(reason)])

\* score = float(score_parts[0].split()[-1]), sw being
\* score_parts[0].split(); reason = score_parts[1].strip()
rankScore(tweets, idx, score_parts, sw) ==
    IF sw = << >> THEN Raise("IndexError", <<"list index out of range">>)
    ELSE rankAssign(tweets, pyIndex(tweets, idx), float(sw[Len(sw)]),
                    strip(score_parts[2]))

\* if len(score_parts) == 2 and idx < len(tweets)
rankScoreParts(tweets, idx, score_parts) ==
    IF ~(Len(score_parts) = 2 /\ idx < Len(tweets)) THEN Ret(tweets)
    ELSE rankScore(tweets, idx, score_parts, splitWs(score_parts[1]))

\* idx = int(parts[0].split()[1]) - 1, i being the outcome of int();
\* score_parts = parts[1].split('-')
rankIdx(tweets, parts, i) ==
    IF ~i.ok THEN i
    ELSE rankScoreParts(tweets, i.val - 1, split(parts[2], "-"))

\* parts[0].split()[1], words being parts[0].split()
rankWords(tweets, parts, words) ==
    IF Len(words) < 2 THEN Raise("IndexError", <<"list index out of range">>)
    ELSE rankIdx(tweets, parts, int(words[2]))

\* if len(parts) == 2
rankParts(tweets, parts) ==
    IF Len(parts) # 2 THEN Ret(tweets)
    ELSE rankWords(tweets, parts, splitWs(parts[1]))

\* one iteration of the loop of rank over the response lines: the list
\* after the line, or the exception the line raises
rankLine(tweets, line) ==
    IF ~startswith(line, TWEET) THEN Ret(tweets)
    ELSE rankParts(tweets, split(line, ":"))

\* the loop of rank: the lines in order, stopping at the first exception
RECURSIVE rankLines(_, _)
rankLoop(r, rest) == IF r.ok THEN rankLines(r.val, rest) ELSE r

rankLines(tweets, lines) ==
    IF lines = << >> THEN Ret(tweets)
    ELSE rankLoop(rankLine(tweets, Head(lines)), Tail(lines))

\* the prompt of rank is an f-string whose last line, the format example
\* "TWEET {i+1}: SCORE {score} - {reason}", is evaluated in the scope of
\* rank, where no i is bound: building the prompt raises NameError, before
\* the try block is entered
rankPrompt(tweets) == Raise("NameError", <<"name 'i' is not defined">>)

\* return sorted(...), or except Exception as e: raise WriterError(...),
\* r being the outcome of the loop
rankEnd(r) ==
    IF r.ok THEN Ret(sorted(r.val))
    ELSE Raise("WriterError", <<"Failed to rank tweets: ">> \o r.err.msg)

\* the try block of rank: g is the outcome of llm.generate(prompt); every
\* exception of the block is re-raised as WriterError
rankTry(tweets, g) ==
    IF ~g.ok
    THEN Raise("WriterError", <<"Failed to rank tweets: ">> \o g.err.msg)
    ELSE rankEnd(rankLines(tweets, split(g.val, NL)))

\* rank(tweets, llm)
rank(tweets, g) ==
    LET prompt == rankPrompt(tweets) IN
    IF ~prompt.ok THEN prompt ELSE rankTry(tweets, g)

(***************************************************************************)
(* collectors/web_search.py                                                *)
(***************************************************************************)
RECURSIVE collectLines(_)
collectLines(lines) ==
    IF lines = << >> THEN << >>
    ELSE LET l == strip(Head(lines)) IN
         IF startswith(l, BULLET_MOJIBAKE) \/ startswith(l, BULLET_DASH)
         THEN <<strip(SliceFrom(l, 2))>> \o collectLines(Tail(lines))
         ELSE collectLines(Tail(lines))

\* collect(topic, hours, llm): g is the outcome of llm.generate(prompt)
collect(g) ==
    IF ~g.ok
    THEN Raise("CollectorError",
               <<"Failed to collect information: ">> \o g.err.msg)
    ELSE Ret(collectLines(split(g.val, NL)))

(***************************************************************************)
(* core/storage.py and drafts/manager.py                                   *)
(***************************************************************************)
\* json.dumps of one value of a record: None is null, a float a number,
\* a str a string
JNull == [t |-> "null"]
JNum(f) == [t |-> "number", num |-> f.num, den |-> f.den]
JStr(x) == [t |-> "string", s |-> x]

\* json.dumps(record): the members in the order of the dict
json_dumps(record) ==
    << <<"id", JStr(record.id)>>,
       <<"text", JStr(record.text)>>,
       <<"score", IF record.score = None THEN JNull
                  ELSE JNum(record.score[1])>>,
       <<"reason", IF record.reason = None THEN JNull
                   ELSE JStr(record.reason[1])>> >>

\* a timestamp that does not follow the clock
strftimeFirstDay(d) == <<"2", "0", "2", "6", "-", "0", "1", "-", "0", "1">>

\* datetime.now().strftime("%Y-%m-%d") on day d of the model's clock
strftime(d) == <<"2", "0", "2", "6", "-", "0", "1", "-", "0">>
               \o <<CHOOSE c \in Digits : DigitVal(c) = d>>

\* f"{category}_{topic}_{timestamp}.jsonl"
filename(category, topic, d) ==
    category \o <<"_">> \o topic \o <<"_">> \o strftime(d)
    \o <<".", "j", "s", "o", "n", "l">>

\* a save_jsonl that opens the file with mode 'a'
save_jsonlAppend(fs, path, records, io, k) ==
    LET old == IF path \in DOMAIN fs THEN fs[path] ELSE << >> IN
    CASE io = "ok" ->
           [fs |-> (path :> (old \o [j \in 1..Len(records) |->
                                        json_dumps(records[j])])) @@ fs,
            out |-> Ret(None)]
      [] io = "eopen" ->
           [fs |-> fs, out |-> Raise("OSError", <<"Permission denied">>)]
      [] io = "ewrite" ->
           [fs |-> (path :> (old \o [j \in 1..k |-> json_dumps(records[j])]))
                   @@ fs,
            out |-> Raise("OSError", <<"No space left on device">>)]

\* save_jsonl(path, records): open(path, 'w') creates or truncates the
\* file, then one line per record is written.  io is what the file system
\* does: "ok", or an OSError at open ("eopen": nothing has changed), or an
\* OSError while writing ("ewrite": the file holds the first k lines)
save_jsonl(fs, path, records, io, k) ==
    CASE io = "ok" ->
           [fs |-> (path :> [j \in 1..Len(records) |-> json_dumps(records[j])])
                   @@ fs,
            out |-> Ret(None)]
      [] io = "eopen" ->
           [fs |-> fs, out |-> Raise("OSError", <<"Permission denied">>)]
      [] io = "ewrite" ->
           [fs |-> (path :> [j \in 1..k |-> json_dumps(records[j])]) @@ fs,
            out |-> Raise("OSError", <<"No space left on device">>)]

\* return path, when save_jsonl has returned
savePath(w, path) ==
    [fs |-> w.fs, out |-> IF w.out.ok THEN Ret(path) ELSE w.out]

\* the records save builds from the tweets
saveRecords(tweets) ==
    [j \in 1..Len(tweets) |->
        [id |-> tweets[j].id, text |-> tweets[j].text,
         score |-> tweets[j].score, reason |-> tweets[j].reason]]

\* save(category, topic, tweets, out_dir=None) on day d
saveAt(fs, path, tweets, io, k) ==
    savePath(save_jsonl(fs, path, saveRecords(tweets), io, k), path)

save(fs, category, topic, tweets, d, io, k) ==
    saveAt(fs, filename(category, topic, d), tweets, io, k)

\* json.loads(line): the dict of the members of the object, null read as
\* None, a number as a float and a string as a str
json_value(j) ==
    CASE j.t = "null" -> None
      [] j.t = "number" -> Some([num |-> j.num, den |-> j.den])
      [] j.t = "string" -> Some(j.s)

json_loads(line) ==
    [key \in {line[i][1] : i \in 1..Len(line)} |->
        json_value(line[CHOOSE i \in 1..Len(line) : line[i][1] = key][2])]

\* load_jsonl(path): no record when the file does not exist, otherwise one
\* dict for every line that is not blank
RECURSIVE load_jsonlLines(_)
load_jsonlLines(lines) ==
    IF lines = << >> THEN << >>
    ELSE IF Head(lines) = << >> THEN load_jsonlLines(Tail(lines))
         ELSE <<json_loads(Head(lines))>> \o load_jsonlLines(Tail(lines))

load_jsonl(fs, path) ==
    IF path \notin DOMAIN fs THEN << >> ELSE load_jsonlLines(fs[path])

\* r.get(key)
get(r, key) == IF key \in DOMAIN r THEN r[key] ELSE None

\* a load that reads id and text only
loadTweetsTextOnly(records) ==
    [j \in 1..Len(records) |->
        [id |-> records[j]["id"][1], text |-> records[j]["text"][1],
         score |-> None, reason |-> None]]

\* DraftTweet(id=r["id"], text=r["text"], score=r.get("score"),
\*            reason=r.get("reason")) for the records of load
loadTweets(records) ==
    [j \in 1..Len(records) |->
        [id |-> records[j]["id"][1], text |-> records[j]["text"][1],
         score |-> get(records[j], "score"),
         reason |-> get(records[j], "reason")]]

\* load(path)
load(fs, path) == Ret(loadTweets(load_jsonl(fs, path)))

\* the characters of file names in the order of their code points
Alphabet ==
    <<"*", "-", ".", "0", "1", "2", "3", "4", "5", "6", "7", "8", "9", "?",
      "_", "a", "b", "c", "d", "e", "f", "g", "h", "i", "j", "k", "l", "m",
      "n", "o", "p", "q", "r", "s", "t", "u", "v", "w", "x", "y", "z">>

Ord(c) == CHOOSE i \in 1..Len(Alphabet) : Alphabet[i] = c

\* a <= b for two paths of one directory: the order of str
RECURSIVE PathLE(_, _)
PathLE(a, b) ==
    IF a = << >> THEN TRUE
    ELSE IF b = << >> THEN FALSE
    ELSE IF Head(a) = Head(b) THEN PathLE(Tail(a), Tail(b))
    ELSE Ord(Head(a)) < Ord(Head(b))

\* sorted(paths)
RECURSIVE sortedPaths(_)
sortedPaths(S) ==
    IF S = {} THEN << >>
    ELSE LET m == CHOOSE x \in S : \A y \in S : PathLE(x, y)
         IN <<m>> \o sortedPaths(S \ {m})

\* the match of a name against a glob pattern: * stands for any characters,
\* ? for any one character, every other character for itself
RECURSIVE fnmatch(_, _)
fnmatch(name, pat) ==
    IF pat = << >> THEN name = << >>
    ELSE IF Head(pat) = "*"
         THEN \/ fnmatch(name, Tail(pat))
              \/ name # << >> /\ fnmatch(Tail(name), pat)
    ELSE IF name = << >> THEN FALSE
    ELSE /\ Head(pat) = "?" \/ Head(pat) = Head(name)
         /\ fnmatch(Tail(name), Tail(pat))

\* f"{category}_*.jsonl" if category else "*.jsonl": None and "" are falsy
listPattern(category) ==
    IF category = << >> THEN <<"*", ".", "j", "s", "o", "n", "l">>
    ELSE category \o <<"_", "*", ".", "j", "s", "o", "n", "l">>

\* list_drafts(category=None): sorted(DRAFTS_DIR.glob(pattern))
list_drafts(fs, category) ==
    Ret(sortedPaths({f \in DOMAIN fs : fnmatch(f, listPattern(category))}))

(***************************************************************************)
(* llm/base.py and llm/providers                                           *)
(***************************************************************************)
\* llm/__init__.py imports providers/openai.py, whose class is decorated
\* with @register("openai"): the registry of a process that has imported
\* the pipeline
InitRegistry == ("openai" :> "OpenAILLM")

\* the registrations that can still happen: importing providers/groq.py
\* runs @register("groq"), and tests/unit/test_registry.py registers its
\* FakeLLM as "fake"
Registrations == {<<"groq", "GroqLLM">>, <<"fake", "FakeLLM">>}

\* GroqLLM.__init__: LLMError when get_api_key("groq") finds no key; c
\* tells whether the credentials are there
GroqLLM_init(c) ==
    IF c THEN Ret("GroqLLM")
    ELSE Raise("LLMError",
               <<"GROQ_API_KEY not found in environment or config">>)

\* OpenAILLM.__init__: OpenAI(api_key=None) raises when the environment
\* holds no OPENAI_API_KEY
OpenAILLM_init(c) ==
    IF c THEN Ret("OpenAILLM")
    ELSE Raise("OpenAIError", <<"The api_key client option must be set">>)

\* a lookup that falls back on the first class registered when the name is
\* not known
get_clientFallback(reg, provider, c) ==
    IF provider \notin DOMAIN reg THEN OpenAILLM_init(c)
    ELSE CASE reg[provider] = "GroqLLM" -> GroqLLM_init(c)
           [] reg[provider] = "OpenAILLM" -> OpenAILLM_init(c)
           [] OTHER -> Ret(reg[provider])

\* get_client(provider, model): the class registered under the name is
\* instantiated
get_client(reg, provider, c) ==
    IF provider \notin DOMAIN reg
    THEN Raise("ValueError", <<"Unknown LLM provider: ", provider>>)
    ELSE CASE reg[provider] = "GroqLLM" -> GroqLLM_init(c)
           [] reg[provider] = "OpenAILLM" -> OpenAILLM_init(c)
           [] OTHER -> Ret(reg[provider])

\* GroqLLM.generate: the content of the answer, or LLMError for every
\* failure of the request
GroqLLM_generate(texts) ==
    {Ret(t) : t \in texts}
    \cup {Raise("LLMError", <<"Groq API error: ", "503 Server Error">>)}

\* OpenAILLM.generate passes the SDK's response object to json.dumps, which
\* raises TypeError; every exception of the method is re-raised as Exception
OpenAILLM_generate(texts) ==
    {Raise("Exception",
           <<"OpenAI API error: ",
             "Object of type Response is not JSON serializable">>)}

\* the generate of the test double: it always answers
FakeLLM_generate(texts) == {Ret(t) : t \in texts}

\* OllamaLLM.generate: the trimmed output of the ollama command; LLMError
\* when the command exits with a failure or is not installed; the error of
\* subprocess.run itself when the output cannot be decoded as text
OllamaLLM_generate(texts) ==
    {Ret(strip(t)) : t \in texts}
    \cup {Raise("LLMError", <<"Ollama error: ", "model not found">>),
          Raise("LLMError",
                <<"Ollama CLI not found. Please install it first.">>),
          Raise("UnicodeDecodeError", <<"invalid start byte">>)}

\* CerebrasLLM.generate: the stub raises NotImplementedError
CerebrasLLM_generate(texts) ==
    {Raise("NotImplementedError",
           <<"Cerebras provider not implemented yet">>)}

\* llm.generate(prompt) of an instance of class cls, the backend answering
\* with one of texts or failing
generate(cls, texts) ==
    CASE cls = "FakeLLM" -> FakeLLM_generate(texts)
      [] cls = "GroqLLM" -> GroqLLM_generate(texts)
      [] cls = "OpenAILLM" -> OpenAILLM_generate(texts)
      [] cls = "OllamaLLM" -> OllamaLLM_generate(texts)
      [] cls = "CerebrasLLM" -> CerebrasLLM_generate(texts)

(***************************************************************************)
(* llm/providers/openai.py: generate_tweets.  The text of the assistant    *)
(* message is taken as the JSON value it denotes: json.loads is the        *)
(* library's.  An object of the list is a dict from its keys to strings.   *)
(***************************************************************************)
\* the length above which a text is cut, the length it is cut to, and the
\* mark put at its end
TWEET_MAX == 280
TWEET_CUT == 277
ELLIPSIS == <<"U+2026">>

\* q[:n]
sliceTo(q, n) ==
    IF n >= 0 THEN SubSeq(q, 1, IF n < Len(q) THEN n ELSE Len(q))
    ELSE SubSeq(q, 1, IF Len(q) + n > 0 THEN Len(q) + n ELSE 0)

\* t.get(key, "")
getStr(t, key) == IF key \in DOMAIN t THEN t[key] ELSE << >>

\* t.get(key) or None
getOrNone(t, key) ==
    IF key \in DOMAIN t /\ t[key] # << >> THEN Some(t[key]) ELSE None

\* if len(text) > 280: text = text[:277] + "..."
truncate(text) ==
    IF Len(text) > TWEET_MAX THEN SubSeq(text, 1, TWEET_CUT) \o ELLIPSIS
    ELSE text

\* the dict appended to cleaned for the object t
cleanTweet(t) ==
    [text |-> truncate(strip(getStr(t, "text"))),
     image_prompt |-> getOrNone(t, "image_prompt"),
     alt_text |-> getOrNone(t, "alt_text")]

\* the loop over tweets[:num_tweets] and what follows it
normalise(head) ==
    IF head = << >>
    THEN Raise("RuntimeError", <<"No tweets parsed from LLM output">>)
    ELSE Ret([k \in 1..Len(head) |-> cleanTweet(head[k])])

\* generate_tweets(prompt, num_tweets): resp is the outcome of
\* client.responses.create, the list of the assistant message if it has one
generate_tweets(resp, num_tweets) ==
    IF ~resp.ok THEN resp
    ELSE IF resp.val = None
    THEN Raise("RuntimeError",
               <<"Missing assistant message in LLM response">>)
    ELSE normalise(sliceTo(resp.val[1], num_tweets))

\* the objects a structured answer is made of: plain, padded, quoted, empty
\* and blank texts, one with an image prompt, and a text of 281 characters
TweetObjects ==
    { ("text" :> <<"a">>),
      ("text" :> <<" ", "b", " ">>) @@ ("image_prompt" :> <<"i">>),
      ("text" :> <<"\"", "c", "\"">>),
      ("text" :> << >>),
      ("text" :> <<" ">>),
      ("text" :> [k \in 1..(TWEET_MAX + 1) |-> "x"]) }

\* the structured lists of at most MaxTweets + 1 objects
TweetLists == UNION {[1..k -> TweetObjects] : k \in 0..(MaxTweets + 1)}

\* what client.responses.create gives generate_tweets
ParserResponses ==
    {Ret(Some(l)) : l \in TweetLists}
    \cup {Ret(None), Raise("APIError", <<"Connection error.">>)}

(***************************************************************************)
(* llm/providers/openai.py: generate_tweets from the text of the assistant *)
(* message.  A position p of a text s is the index of its next character,  *)
(* Len(s) + 1 at the end of the text.                                      *)
(***************************************************************************)
UpperCase ==
    <<"A", "B", "C", "D", "E", "F", "G", "H", "I", "J", "K", "L", "M",
      "N", "O", "P", "Q", "R", "S", "T", "U", "V", "W", "X", "Y", "Z">>
LowerCase ==
    <<"a", "b", "c", "d", "e", "f", "g", "h", "i", "j", "k", "l", "m",
      "n", "o", "p", "q", "r", "s", "t", "u", "v", "w", "x", "y", "z">>

\* c.lower()
lower(c) ==
    IF \E k \in 1..26 : UpperCase[k] = c
    THEN LowerCase[CHOOSE k \in 1..26 : UpperCase[k] = c]
    ELSE c

\* the literal lit is at position p of s, letters compared as re.I does
litAt(s, p, lit) ==
    /\ p + Len(lit) - 1 <= Len(s)
    /\ \A k \in 1..Len(lit) : lower(s[p + k - 1]) = lower(lit[k])

\* the position after the longest run of characters of class at p
RECURSIVE skip(_, _, _)
skip(s, p, class) ==
    IF p <= Len(s) /\ s[p] \in class THEN skip(s, p + 1, class) ELSE p

BOLD_TWEET == <<"*", "*", "T", "w", "e", "e", "t">>
IMAGE_PROMPT ==
    <<"\n", "*", "I", "m", "a", "g", "e", " ", "p", "r", "o", "m", "p",
      "t", ":">>
ALT_TEXT == <<"\n", "*", "A", "l", "t", "-", "t", "e", "x", "t", ":">>

\* \*\*Tweet\s+\d+: at p: the position after the colon, 0 without a match
tweetLabel(s, p) ==
    LET a == p + Len(BOLD_TWEET)
        b == skip(s, a, Whitespace)
        c == skip(s, b, Digits)
    IN IF litAt(s, p, BOLD_TWEET) /\ b > a /\ c > b /\ litAt(s, c, <<":">>)
       THEN c + 1 ELSE 0

\* \*\*Tweet\s+\d+:\*\*\s* at p: the position after it, 0 without a match
tweetHeader(s, p) ==
    LET c == tweetLabel(s, p) IN
    IF c # 0 /\ litAt(s, c, <<"*", "*">>)
    THEN skip(s, c + 2, Whitespace) ELSE 0

\* (?=\n\*\*Tweet\s+\d+:|\Z) at q
lookahead(s, q) ==
    \/ q = Len(s) + 1
    \/ litAt(s, q, <<"\n">>) /\ tweetLabel(s, q + 1) # 0

\* the smallest member of a non-empty set of positions
First(S) == CHOOSE j \in S : \A i \in S : j <= i

\* the positions of an asterisk that can close a group opened by lit at q
stars(s, q, lit) ==
    IF litAt(s, q, lit)
    THEN {j \in skip(s, q + Len(lit), Whitespace)..Len(s) : s[j] = "*"}
    ELSE {}

\* the text captured by a group opened by lit at q and closed at j
captured(s, q, lit, j) ==
    SubSeq(s, skip(s, q + Len(lit), Whitespace), j - 1)

\* (?:\n\*Alt-text:\s*(?P<alt>.*?)\*)?(?=...) at q: the group is tried
\* first, its text taken as short as the look-ahead allows
altTail(s, q) ==
    LET J == {j \in stars(s, q, ALT_TEXT) : lookahead(s, j + 1)} IN
    IF J # {}
    THEN [ok |-> TRUE, alt |-> captured(s, q, ALT_TEXT, First(J)),
          end |-> First(J) + 1]
    ELSE [ok |-> lookahead(s, q), alt |-> << >>, end |-> q]

\* (?:\n\*Image prompt:\s*(?P<img>.*?)\*)? and what follows it, at e
imgTail(s, e) ==
    LET J == {j \in stars(s, e, IMAGE_PROMPT) : altTail(s, j + 1).ok} IN
    IF J # {}
    THEN [ok |-> TRUE, img |-> captured(s, e, IMAGE_PROMPT, First(J)),
          alt |-> altTail(s, First(J) + 1).alt,
          end |-> altTail(s, First(J) + 1).end]
    ELSE [ok |-> altTail(s, e).ok, img |-> << >>,
          alt |-> altTail(s, e).alt, end |-> altTail(s, e).end]

\* the match of block_regex whose header ends at h: the body (?P<body>.*?)
\* is the shortest after which the rest of the pattern matches
blockMatch(s, h) ==
    LET e == First({q \in h..(Len(s) + 1) : imgTail(s, q).ok}) IN
    [text |-> strip(SubSeq(s, h, e - 1)),
     image_prompt |-> strip(imgTail(s, e).img),
     alt_text |-> strip(imgTail(s, e).alt),
     end |-> imgTail(s, e).end]

\* the dict built from a match
blockDict(m) ==
    ("text" :> m.text) @@ ("image_prompt" :> m.image_prompt)
    @@ ("alt_text" :> m.alt_text)

\* [... for m in block_regex.finditer(raw)], the search starting at p
RECURSIVE finditer(_, _)
finditer(s, p) ==
    LET S == {q \in p..Len(s) : tweetHeader(s, q) # 0} IN
    IF S = {} THEN << >>
    ELSE <<blockDict(blockMatch(s, tweetHeader(s, First(S))))>>
         \o finditer(s, blockMatch(s, tweetHeader(s, First(S))).end)

\* the three backquotes of a code fence
BACKQUOTE == "U+0060"
FENCE == <<BACKQUOTE, BACKQUOTE, BACKQUOTE>>

\* the pattern of re.sub, a fence at the start of a line with the word json
\* after it or a fence at the end of a line, at p: the position after the
\* match, 0 without one
fenceAt(s, p) ==
    LET w == skip(s, p, Whitespace) IN
    IF (p = 1 \/ s[p - 1] = "\n") /\ litAt(s, w, FENCE)
    THEN IF litAt(s, w + 3, <<"j", "s", "o", "n">>) THEN w + 7 ELSE w + 3
    ELSE IF litAt(s, p, FENCE) /\ (p + 3 = Len(s) + 1 \/ s[p + 3] = "\n")
         THEN p + 3
         ELSE 0

\* re.sub(pattern, "", raw, flags=re.I | re.M) from p on
RECURSIVE fenceSub(_, _)
fenceSub(s, p) ==
    LET M == {q \in p..Len(s) : fenceAt(s, q) # 0} IN
    IF M = {} THEN SubSeq(s, p, Len(s))
    ELSE SubSeq(s, p, First(M) - 1) \o fenceSub(s, fenceAt(s, First(M)))

\* the outcome of reading a part of a JSON text
JFail == [ok |-> FALSE, val |-> << >>, end |-> 0]
JDone(v, e) == [ok |-> TRUE, val |-> v, end |-> e]

\* a JSON string at p: no escape and no line break inside it
jsonString(s, p) ==
    LET J == {j \in (p + 1)..Len(s) : s[j] = "\""} IN
    IF litAt(s, p, <<"\"">>) /\ J # {}
       /\ \A k \in (p + 1)..(First(J) - 1) : s[k] \notin {"\\", "\n"}
    THEN JDone(SubSeq(s, p + 1, First(J) - 1), First(J) + 1)
    ELSE JFail

\* the key of a dict, for the characters of a JSON member name: the keys
\* generate_tweets reads, and one name for every other key
keyOf(name) ==
    CASE name = <<"t", "e", "x", "t">> -> "text"
      [] name = <<"i", "m", "a", "g", "e", "_", "p", "r", "o", "m", "p", "t">>
           -> "image_prompt"
      [] name = <<"a", "l", "t", "_", "t", "e", "x", "t">> -> "alt_text"
      [] OTHER -> "other"

\* the members of a JSON object from p on, every value a string; a key
\* that comes again replaces the earlier one
RECURSIVE jsonMembers(_, _, _)
jsonMembers(s, p, acc) ==
    LET key == jsonString(s, p)
        c == skip(s, key.end, Whitespace)
        val == jsonString(s, skip(s, c + 1, Whitespace))
        d == skip(s, val.end, Whitespace)
        obj == (keyOf(key.val) :> val.val) @@ acc
    IN IF ~(key.ok /\ litAt(s, c, <<":">>) /\ val.ok) THEN JFail
       ELSE IF litAt(s, d, <<",">>)
       THEN jsonMembers(s, skip(s, d + 1, Whitespace), obj)
       ELSE IF litAt(s, d, <<"}">>) THEN JDone(obj, d + 1)
       ELSE JFail

\* a JSON object of strings at p
jsonObject(s, p) ==
    LET a == skip(s, p + 1, Whitespace) IN
    IF ~litAt(s, p, <<"{">>) THEN JFail
    ELSE IF litAt(s, a, <<"}">>) THEN JDone(<< >>, a + 1)
    ELSE jsonMembers(s, a, << >>)

\* the elements of a JSON array of objects from p on
RECURSIVE jsonElements(_, _, _)
jsonElements(s, p, acc) ==
    LET obj == jsonObject(s, p)
        d == skip(s, obj.end, Whitespace)
    IN IF ~obj.ok THEN JFail
       ELSE IF litAt(s, d, <<",">>)
       THEN jsonElements(s, skip(s, d + 1, Whitespace),
                         Append(acc, obj.val))
       ELSE IF litAt(s, d, <<"]">>) THEN JDone(Append(acc, obj.val), d + 1)
       ELSE JFail

\* a JSON array of objects at p
jsonArray(s, p) ==
    LET a == skip(s, p + 1, Whitespace) IN
    IF ~litAt(s, p, <<"[">>) THEN JFail
    ELSE IF litAt(s, a, <<"]">>) THEN JDone(<< >>, a + 1)
    ELSE jsonElements(s, a, << >>)

\* tweets = json.loads(cleaned); if not isinstance(tweets, list): raise
\* ValueError.  The texts read as a list are the arrays of objects of
\* strings; for any other text json.loads raises or gives no list
jsonPath(cleaned) ==
    LET a == jsonArray(cleaned, skip(cleaned, 1, Whitespace)) IN
    IF a.ok /\ skip(cleaned, a.end, Whitespace) = Len(cleaned) + 1
    THEN Ret(a.val)
    ELSE Raise("ValueError", << >>)

\* the list tweets after the JSON path and the Markdown fallback
parseTweets(raw) ==
    LET tried == jsonPath(strip(fenceSub(raw, 1))) IN
    IF tried.ok THEN tried.val ELSE finditer(raw, 1)

\* generate_tweets(prompt, num_tweets) when the assistant message has the
\* text resp.val[1]
generate_tweets_text(resp, num_tweets) ==
    IF ~resp.ok THEN resp
    ELSE IF resp.val = None
    THEN Raise("RuntimeError",
               <<"Missing assistant message in LLM response">>)
    ELSE normalise(sliceTo(parseTweets(strip(resp.val[1])), num_tweets))

(***************************************************************************)
(* llm/providers/openai.py: format_for_twitter                             *)
(***************************************************************************)
\* tag.lstrip('#')
RECURSIVE lstripHash(_)
lstripHash(tag) ==
    IF tag # << >> /\ Head(tag) = "#" THEN lstripHash(Tail(tag)) ELSE tag

\* [f"#{tag.lstrip('#')}" for tag in hashtags if tag]
RECURSIVE hashed(_)
hashed(hashtags) ==
    IF hashtags = << >> THEN << >>
    ELSE IF Head(hashtags) = << >> THEN hashed(Tail(hashtags))
         ELSE <<<<"#">> \o lstripHash(Head(hashtags))>>
              \o hashed(Tail(hashtags))

\* tag_block: empty when hashtags is None or empty
tagBlock(hashtags) ==
    IF hashtags = << >> THEN << >>
    ELSE strip(join(<<" ">>, hashed(hashtags)))

\* body + "\n\n" + tag_block, the body alone without a tag block
tagged(body, tag_block) ==
    IF tag_block # << >> THEN body \o <<"\n", "\n">> \o tag_block ELSE body

\* the string appended to result for a body that is not empty
formatted(body, tag_block) ==
    LET room == TWEET_MAX
                - (IF tag_block # << >> THEN Len(tag_block) + 2 ELSE 0)
    IN IF Len(tagged(body, tag_block)) > TWEET_MAX
       THEN tagged(sliceTo(body, room - 1) \o ELLIPSIS, tag_block)
       ELSE tagged(body, tag_block)

\* the loop over tweets
RECURSIVE formatAll(_, _)
formatAll(ts, tag_block) ==
    IF ts = << >> THEN << >>
    ELSE IF strip(Head(ts)["text"]) = << >>
         THEN formatAll(Tail(ts), tag_block)
         ELSE <<formatted(strip(Head(ts)["text"]), tag_block)>>
              \o formatAll(Tail(ts), tag_block)

\* format_for_twitter(tweets, hashtags)
format_for_twitter(ts, hashtags) == Ret(formatAll(ts, tagBlock(hashtags)))

\* a text of n letters
Letters(n) == [k \in 1..n |-> "x"]

\* the tweets to format: blank and short texts, texts that fit with the
\* default hashtags or just do not, and texts at and over the length cap
FormatObjects ==
    {("text" :> t) : t \in {<<" ">>, <<" ", "a", " ">>, Letters(260),
                            Letters(261), Letters(TWEET_MAX),
                            Letters(TWEET_MAX + 1)}}

\* the hashtags given: none, the default, tags with and without their
\* mark and an empty tag, and single tags that make blocks of 270 to 290
\* characters
FormatHashtags ==
    { << >>,
      << <<"t", "e", "c", "h">>,
         <<"d", "e", "v", "e", "l", "o", "p", "m", "e", "n", "t">> >>,
      << <<"#", "#", "a">>, << >>, <<"b">> >> }
    \cup {<<Letters(n)>> : n \in {269, 276, 277, 278, 289}}

(***************************************************************************)
(* The inputs of the model.                                                *)
(***************************************************************************)
Topics == {<<"a", "i">>}
Providers == {"openai", "groq", "fake"}
DIGEST == <<"d", "i", "g", "e", "s", "t">>

\* what the backend answers to the prompt of collect
CollectResponses ==
    { <<"-", " ", "A", "\n", "-", " ", "B">>,
      <<"n", "o", " ", "n", "e", "w", "s">> }

\* what the backend answers to the prompt of draft
DraftResponses ==
    { <<"T", "W", "E", "E", "T", ":", " ", "x", "\n", "T", "W", "E", "E", "T", ":", " ", "y">>,
      <<"T", "W", "E", "E", "T", ":", " ", "x", "\n", " ", "T", "W", "E", "E", "T", ":", " ", "y", "\n", "n", "o", "t", "e">>,
      <<"s", "o", "r", "r", "y">> }

\* a response line "TWEET <i>: SCORE <s> - <r>" of the format the prompt
\* of rank asks for
RankLine(l) ==
    TWEET \o SP \o l.i \o <<":", " ", "S", "C", "O", "R", "E", " ">> \o l.s
    \o <<" ", "-", " ">> \o l.r

\* the response made of the given lines
RankText(ls) == join(<<NL>>, [k \in 1..Len(ls) |-> RankLine(ls[k])])

\* rankings of well-formed lines whose index is within 1..2, each index
\* referenced at most once
WellFormedRankings ==
    { <<[i |-> <<"1">>, s |-> <<"0", ".", "9">>, r |-> <<"g", "o", "o", "d">>],
        [i |-> <<"2">>, s |-> <<"0", ".", "4">>, r |-> <<"o", "k">>]>>,
      <<[i |-> <<"2">>, s |-> <<"0", ".", "9">>, r |-> <<"g", "o", "o", "d">>]>>,
      <<[i |-> <<"1">>, s |-> <<"0", ".", "4">>, r |-> <<"o", "k">>],
        [i |-> <<"2">>, s |-> <<"0", ".", "4">>, r |-> <<"o", "k">>]>>,
      <<[i |-> <<"2">>, s |-> <<"0">>, r |-> <<"w", "e", "a", "k">>]>> }

\* well-formed lines whose reason contains a hyphen or a colon
PunctuatedRankings ==
    { <<[i |-> <<"1">>, s |-> <<"0", ".", "9">>, r |-> <<"w", "e", "l", "l", "-", "w", "r", "i", "t", "t", "e", "n">>]>>,
      <<[i |-> <<"1">>, s |-> <<"0", ".", "9">>, r |-> <<"n", "o", "t", "e", ":", " ", "f", "i", "n", "e">>]>> }

\* lines whose index is outside 1..number of candidates
OutOfRangeRankings ==
    { <<[i |-> <<"0">>, s |-> <<"0", ".", "9">>, r |-> <<"g", "o", "o", "d">>]>>,
      <<[i |-> <<"-", "1">>, s |-> <<"0", ".", "9">>, r |-> <<"g", "o", "o", "d">>]>>,
      <<[i |-> <<"3">>, s |-> <<"0", ".", "9">>, r |-> <<"g", "o", "o", "d">>]>> }

\* responses with a TWEET line that has no index token, a non-numeric
\* index token or a non-numeric score, and a response without any TWEET line
MalformedRankTexts ==
    { <<"T", "W", "E", "E", "T", ":", " ", "S", "C", "O", "R", "E", " ", "0", ".", "9", " ", "-", " ", "g", "o", "o", "d", "\n", "T", "W", "E", "E", "T", " ", "1", ":", " ", "S", "C", "O", "R", "E", " ", "0", ".", "4", " ", "-", " ", "o", "k">>,
      <<"T", "W", "E", "E", "T", " ", "x", ":", " ", "S", "C", "O", "R", "E", " ", "0", ".", "9", " ", "-", " ", "g", "o", "o", "d">>,
      <<"T", "W", "E", "E", "T", " ", "1", ":", " ", "S", "C", "O", "R", "E", " ", "h", "i", "g", "h", " ", "-", " ", "g", "o", "o", "d">>,
      <<"n", "o", " ", "r", "a", "n", "k", "i", "n", "g">> }

\* what the backend answers to the prompt of rank
RankResponses ==
    {RankText(ls) : ls \in WellFormedRankings \cup PunctuatedRankings
                           \cup OutOfRangeRankings}
    \cup MalformedRankTexts

\* the decimal numeral of a block index
Numeral(i) == <<CHOOSE c \in Digits : DigitVal(c) = i>>

\* the blocks a Markdown answer is made of: a body alone, with an image
\* prompt, and with an image prompt and an alt-text
MarkdownBlocks ==
    { [body |-> <<"a">>, img |-> None, alt |-> None],
      [body |-> <<"b">>, img |-> Some(<<"c", "a", "t">>), alt |-> None],
      [body |-> <<"c">>, img |-> Some(<<"d">>), alt |-> Some(<<"z">>)] }

\* a Markdown answer: its blocks, whether the labels are bold ("**Tweet
\* 1:**") or plain ("Tweet 1:"), and what separates two blocks
MarkdownAnswers ==
    [blocks : UNION {[1..k -> MarkdownBlocks] : k \in 1..MaxTweets},
     bold : BOOLEAN,
     sep : {<<"\n">>, <<"\n", "\n">>}]

\* the text of the i-th block of the answer d
BlockText(d, i) ==
    LET b == d.blocks[i]
        label == SubSeq(BOLD_TWEET, 3, 7) \o <<" ">> \o Numeral(i) \o <<":">>
    IN (IF d.bold THEN <<"*", "*">> \o label \o <<"*", "*">> ELSE label)
       \o <<" ">> \o b.body
       \o (IF b.img = None THEN << >>
           ELSE IMAGE_PROMPT \o <<" ">> \o b.img[1] \o <<"*">>)
       \o (IF b.alt = None THEN << >>
           ELSE ALT_TEXT \o <<" ">> \o b.alt[1] \o <<"*">>)

\* the text of the answer d
MarkdownText(d) ==
    join(d.sep, [i \in 1..Len(d.blocks) |-> BlockText(d, i)])

\* the texts of the objects of a JSON answer: a plain one and one that
\* holds a block label
JsonTexts == {<<"q">>, <<"*", "*", "T", "w", "e", "e", "t", " ", "1", ":",
                         "*", "*", " ", "x">>}

\* a JSON answer: the texts of its objects, and whether it is fenced
JsonAnswers ==
    [texts : UNION {[1..k -> JsonTexts] : k \in 0..MaxTweets},
     fenced : BOOLEAN]

\* the text of the JSON answer d
JsonText(d) ==
    LET obj(t) == <<"{", "\"", "t", "e", "x", "t", "\"", ":", " ", "\"">>
                  \o t \o <<"\"", "}">>
        list == <<"[">>
                \o join(<<",", " ">>,
                        [i \in 1..Len(d.texts) |-> obj(d.texts[i])])
                \o <<"]">>
    IN IF d.fenced
       THEN FENCE \o <<"j", "s", "o", "n", "\n">> \o list \o <<"\n">> \o FENCE
       ELSE list

\* answers that are neither: prose, and a JSON object that is no list
OtherTexts ==
    { <<"h", "e", "l", "l", "o">>,
      <<"{", "\"", "t", "e", "x", "t", "\"", ":", " ", "\"", "q", "\"", "}">> }

\* what client.responses.create gives generate_tweets, as text
TextResponses ==
    {Ret(Some(MarkdownText(d))) : d \in MarkdownAnswers}
    \cup {Ret(Some(JsonText(d))) : d \in JsonAnswers}
    \cup {Ret(Some(t)) : t \in OtherTexts}
    \cup {Ret(None), Raise("APIError", <<"Connection error.">>)}

\* the categories list_drafts is asked for: none, the pipeline's, one that
\* no file has, and patterns
ListCategories ==
    { None, DIGEST, <<"d", "i", "g">>, <<"d", "*">>, <<"d", "i", "g", "e", "s", "?">> }

\* the batches a caller of the Draft Store saves directly
Batches ==
    { << >>,
      <<[id |-> 101, text |-> <<"p">>, score |-> Some([num |-> 1, den |-> 2]),
         reason |-> Some(<<"r">>)],
        [id |-> 102, text |-> <<"q">>, score |-> None, reason |-> None]>> }

(***************************************************************************)
(* The state.                                                              *)
(***************************************************************************)
VARIABLES
    registry,   \* llm/base.py _REGISTRY: provider name -> class
    files,      \* the drafts directory: file name -> lines of the file
    today,      \* the day datetime.now() falls on
    uuids,      \* the number of uuid4() values drawn so far
    pc,         \* where run stands: "idle" when no run is in progress
    topic,      \* run's argument topic
    tweets,     \* run's argument tweets
    provider,   \* run's argument provider
    llm,        \* run's local llm (the class of the client)
    bullets,    \* run's local bullets
    drafts,     \* run's local drafts
    refined,    \* run's local refined
    ranked,     \* run's local ranked
    result,     \* what run returned or raised
    backend,    \* the outcome the backend gives to the current generate call
    trace,      \* the calls run has made: step, argument, client, outcome
    files0,     \* the drafts directory when run was entered
    reply,      \* the last call of the Draft Store made from the command line
    writers,    \* the processes that are inside save_jsonl at the same time
    verifier,   \* OAuthCallbackHandler.verifier, an attribute of the class
    server,     \* the callback server and its port: "down" or "up"
    stopping,   \* a thread of shutdown_server is still at work
    logins,     \* the number of calls of login so far
    started,    \* the call of login in progress has started the server
    request,    \* the request token of that call, 0 before it has one
    heard,      \* the verifiers the callbacks of that call have carried
    sent,       \* the verifier that call has passed to get_access_token
    token_file  \* the contents of the token file

vars == <<registry, files, today, uuids, pc, topic, tweets, provider, llm,
          bullets, drafts, refined, ranked, result, backend, trace, files0,
          reply, writers, verifier, server, stopping, logins, started,
          request, heard, sent, token_file>>

\* the state of auth.py
oauth == <<verifier, server, stopping, logins, started, request, heard, sent,
           token_file>>

store == <<registry, files, today, uuids>>
locals == <<topic, tweets, provider, llm, bullets, drafts, refined, ranked>>

\* no file
NoFiles == [f \in {} |-> << >>]

\* a call of the Draft Store: the operation, its arguments, the day it was
\* made on, what the file of a save held before the call, and its outcome
Reply(op, category, name, batch, day, old, out) ==
    [op |-> op, category |-> category, name |-> name, tweets |-> batch,
     day |-> day, old |-> old, out |-> out]

\* what a path holds: None when there is no such file
Contents(fs, path) == IF path \in DOMAIN fs THEN Some(fs[path]) ELSE None

\* no call yet
NoReply == Reply("none", << >>, << >>, << >>, 0, None, Ret(None))

\* the processes that may call save at the same time
Writers == {1, 2}

\* a process that is not inside save_jsonl
NoWriter == [pc |-> "out", path |-> << >>, records |-> << >>, pos |-> 0]

\* auth.py has been imported and login has not been called
NoLogin ==
    /\ verifier = None
    /\ server = "down"
    /\ stopping = FALSE
    /\ logins = 0
    /\ started = FALSE
    /\ request = 0
    /\ heard = {}
    /\ sent = None
    /\ token_file = None

Init ==
    /\ registry = InitRegistry
    /\ files = NoFiles
    /\ today = 1
    /\ uuids = 0
    /\ pc = "idle"
    /\ topic = << >>
    /\ tweets = 0
    /\ provider = ""
    /\ llm = ""
    /\ bullets = << >>
    /\ drafts = << >>
    /\ refined = << >>
    /\ ranked = << >>
    /\ result = Ret(None)
    /\ backend = Ret(<< >>)
    /\ trace = << >>
    /\ files0 = NoFiles
    /\ reply = NoReply
    /\ writers = [w \in Writers |-> NoWriter]
    /\ NoLogin

\* one call of run: the step, its data argument, the client it was given
\* and how it ended
Call(step, arg, client, out) ==
    [step |-> step, arg |-> arg, llm |-> client, out |-> out]

(***************************************************************************)
(* Operations outside a run.  The command line process does one thing at   *)
(* a time: they happen while no run is in progress.                        *)
(***************************************************************************)
\* register(name)(cls)
Register ==
    /\ pc = "idle"
    /\ \E nc \in Registrations :
         registry' = (nc[1] :> nc[2]) @@ registry
    /\ UNCHANGED <<files, today, uuids, pc, locals, result, backend, trace,
                   files0, reply, writers,
                   oauth>>

\* midnight passes
Tick ==
    /\ pc = "idle"
    /\ today < MaxDay
    /\ today' = today + 1
    /\ UNCHANGED <<registry, files, uuids, pc, locals, result, backend,
                   trace, files0, reply, writers,
                   oauth>>

\* a direct call save(category, topic, tweets) of the Draft Store, sv
\* being what it does to the directory and how it ends
SaveEnd(category, t, b, sv) ==
    /\ files' = sv.fs
    /\ reply' = Reply("save", category, t, b, today,
                     Contents(files, filename(category, t, today)), sv.out)

Save ==
    /\ pc = "idle"
    /\ \E t \in Topics, b \in Batches, io \in {"ok", "eopen", "ewrite"} :
         \E k \in (IF io = "ewrite" THEN 0..(Len(b) - 1) ELSE {0}) :
           SaveEnd(DIGEST, t, b, save(files, DIGEST, t, b, today, io, k))
    /\ UNCHANGED <<registry, today, uuids, pc, locals, result, backend,
                   trace, files0, writers,
                   oauth>>

\* a call load(path) from the command line
LoadEnd(path, out) == reply' = Reply("load", << >>, path, << >>, today, None, out)

Load ==
    /\ pc = "idle"
    /\ \E t \in Topics, d \in 1..MaxDay :
         LoadEnd(filename(DIGEST, t, d), load(files, filename(DIGEST, t, d)))
    /\ UNCHANGED <<store, pc, locals, result, backend, trace, files0,
                   writers,
                   oauth>>

\* a call list_drafts(category) from the command line
ListDraftsEnd(category, out) ==
    reply' = Reply("list", category, << >>, << >>, today, None, out)

ListDrafts ==
    /\ pc = "idle"
    /\ \E c \in ListCategories : ListDraftsEnd(c, list_drafts(files, c))
    /\ UNCHANGED <<store, pc, locals, result, backend, trace, files0,
                   writers,
                   oauth>>

(***************************************************************************)
(* pipelines/daily_digest.py: run, one action per statement that calls a   *)
(* stage.                                                                  *)
(***************************************************************************)
\* run(topic, hours, tweets, chars, provider, model) is entered
RunStart ==
    /\ pc = "idle"
    /\ \E t \in Topics, n \in 0..MaxTweets, p \in Providers :
         /\ topic' = t
         /\ tweets' = n
         /\ provider' = p
    /\ pc' = "lookup"
    /\ files0' = files
    /\ reply' = NoReply
    /\ UNCHANGED <<store, llm, bullets, drafts, refined, ranked, result,
                   backend, trace, writers,
                   oauth>>

\* a handler that lets the stage's own exception through (a bare raise)
RunFailReraise(e) ==
    /\ pc' = "failed"
    /\ result' = Raise(e.kind, e.msg)

\* except Exception as e: raise PipelineError(f"Pipeline failed: {str(e)}")
RunFail(e) ==
    /\ pc' = "failed"
    /\ result' = Raise("PipelineError", <<"Pipeline failed: ">> \o e.msg)

\* llm = get_client(provider, model), out being the outcome of the call
RunGetClientEnd(out) ==
    /\ trace' = Append(trace, Call("lookup", << >>, provider, out))
    /\ IF out.ok
       THEN llm' = out.val /\ pc' = "collect" /\ UNCHANGED result
       ELSE RunFail(out.err) /\ UNCHANGED llm

RunGetClient ==
    /\ pc = "lookup"
    /\ \E c \in BOOLEAN : RunGetClientEnd(get_client(registry, provider, c))
    /\ UNCHANGED <<store, topic, tweets, provider, bullets, drafts, refined,
                   ranked, backend, files0, reply, writers,
                   oauth>>

\* a run that carries on with no bullets when collect has failed
RunCollectSwallow(g, out) ==
    /\ backend' = g
    /\ trace' = Append(trace, Call("collect", topic, llm, out))
    /\ bullets' = IF out.ok THEN out.val ELSE << >>
    /\ pc' = "draft"
    /\ UNCHANGED result

\* bullets = collect(topic, hours, llm), the backend answering g and out
\* being the outcome of the call
RunCollectEnd(g, out) ==
    /\ backend' = g
    /\ trace' = Append(trace, Call("collect", topic, llm, out))
    /\ IF out.ok
       THEN bullets' = out.val /\ pc' = "draft" /\ UNCHANGED result
       ELSE RunFail(out.err) /\ UNCHANGED bullets

RunCollect ==
    /\ pc = "collect"
    /\ \E g \in generate(llm, CollectResponses) : RunCollectEnd(g, collect(g))
    /\ UNCHANGED <<store, topic, tweets, provider, llm, drafts, refined,
                   ranked, files0, reply, writers,
                   oauth>>

\* drafts = draft(bullets, tweets, chars, llm), the backend answering g,
\* draft drawing u uuids and out being the outcome of the call
RunDraftEnd(g, u, out) ==
    /\ uuids + u <= MaxIds
    /\ uuids' = uuids + u
    /\ backend' = g
    /\ trace' = Append(trace, Call("draft", bullets, llm, out))
    /\ IF out.ok
       THEN drafts' = out.val /\ pc' = "refine" /\ UNCHANGED result
       ELSE RunFail(out.err) /\ UNCHANGED drafts

RunDraft ==
    /\ pc = "draft"
    /\ \E g \in generate(llm, DraftResponses) :
         RunDraftEnd(g, draftUuids(g), draft(bullets, tweets, g, uuids))
    /\ UNCHANGED <<registry, files, today, topic, tweets, provider, llm,
                   bullets, refined, ranked, files0, reply, writers,
                   oauth>>

\* refined = refine(drafts), out being the outcome of the call
RunRefineEnd(out) ==
    /\ trace' = Append(trace, Call("refine", drafts, "", out))
    /\ IF out.ok
       THEN refined' = out.val /\ pc' = "rank" /\ UNCHANGED result
       ELSE RunFail(out.err) /\ UNCHANGED refined

RunRefine ==
    /\ pc = "refine"
    /\ RunRefineEnd(refine(drafts))
    /\ UNCHANGED <<store, topic, tweets, provider, llm, bullets, drafts,
                   ranked, backend, files0, reply, writers,
                   oauth>>

\* path = save("digest", topic, ranked, out_dir); return path, r being
\* what rank returned and sv the outcome of save
RunSaveEnd(r, sv) ==
    /\ ranked' = r.val
    /\ files' = sv.fs
    /\ trace' = trace \o <<Call("rank", refined, llm, r),
                           Call("save", r.val, "", sv.out)>>
    /\ IF sv.out.ok
       THEN pc' = "done" /\ result' = Ret(sv.out.val)
       ELSE RunFail(sv.out.err)

\* a run that saves the refined drafts before it ranks them: sv is the
\* outcome of that save
RunRankSavedFirst(r, sv) ==
    /\ files' = sv.fs
    /\ trace' = Append(trace, Call("rank", refined, llm, r))
    /\ IF ~r.ok
       THEN RunFail(r.err) /\ UNCHANGED ranked
       ELSE pc' = "done" /\ result' = sv.out /\ ranked' = r.val

RunRankSaveFirst(g, r) ==
    /\ backend' = g
    /\ RunRankSavedFirst(r, save(files, DIGEST, topic, refined, today, "ok", 0))

\* ranked = rank(refined, llm), the backend having the answer g ready and
\* r being the outcome of the call; the save and the return of run follow
\* in the same step when rank returns
RunRankEnd(g, r) ==
    /\ backend' = g
    /\ IF ~r.ok
       THEN /\ trace' = Append(trace, Call("rank", refined, llm, r))
            /\ RunFail(r.err)
            /\ UNCHANGED <<ranked, files>>
       ELSE \E io \in {"ok", "eopen", "ewrite"} :
            \E k \in (IF io = "ewrite" THEN 0..(Len(r.val) - 1) ELSE {0}) :
              RunSaveEnd(r, save(files, DIGEST, topic, r.val, today, io, k))

RunRank ==
    /\ pc = "rank"
    /\ \E g \in generate(llm, RankResponses) : RunRankEnd(g, rank(refined, g))
    /\ UNCHANGED <<registry, today, uuids, topic, tweets, provider, llm,
                   bullets, drafts, refined, files0, reply, writers,
                   oauth>>

\* run has returned its path or raised its PipelineError to the caller
RunReturn ==
    /\ pc \in {"done", "failed"}
    /\ pc' = "idle"
    /\ topic' = << >>
    /\ tweets' = 0
    /\ provider' = ""
    /\ llm' = ""
    /\ bullets' = << >>
    /\ drafts' = << >>
    /\ refined' = << >>
    /\ ranked' = << >>
    /\ result' = Ret(None)
    /\ backend' = Ret(<< >>)
    /\ trace' = << >>
    /\ files0' = NoFiles
    /\ UNCHANGED <<store, reply, writers,
                   oauth>>

Next ==
    \/ Register
    \/ Tick
    \/ Save
    \/ Load
    \/ ListDrafts
    \/ RunStart
    \/ RunGetClient
    \/ RunCollect
    \/ RunDraft
    \/ RunRefine
    \/ RunRank
    \/ RunReturn

Spec == Init /\ [][Next]_vars

(***************************************************************************)
(* core/storage.py: save_jsonl run by several processes at once.  Each     *)
(* process has its own open file with its own position; the lines written  *)
(* reach the file when the buffer of the process is flushed, at the latest  *)
(* when the file is closed.  The records of RaceBatches serialise to lines  *)
(* of one length, so a position in the file is a number of lines.          *)
(***************************************************************************)
\* the batches the racing processes save
RaceBatches ==
    { <<[id |-> 201, text |-> <<"p">>, score |-> None, reason |-> None],
        [id |-> 202, text |-> <<"q">>, score |-> None, reason |-> None]>>,
      <<[id |-> 203, text |-> <<"s">>, score |-> None, reason |-> None]>> }

\* a line's length of zero bytes: what the file system puts where a write
\* starts beyond the end of the file
NulLine == << <<"NUL", JNull>> >>

\* write(2) of the lines at position pos of a file that holds content
WriteAt(content, pos, lines) ==
    (IF pos <= Len(content) THEN SubSeq(content, 1, pos)
     ELSE content \o [j \in 1..(pos - Len(content)) |-> NulLine])
    \o lines
    \o (IF pos + Len(lines) < Len(content)
        THEN SubSeq(content, pos + Len(lines) + 1, Len(content))
        ELSE << >>)

\* the lines of the records after the first pos
LinesFrom(records, pos) ==
    [j \in 1..(Len(records) - pos) |-> json_dumps(records[pos + j])]

\* with open(path, 'w') as f: the file is created or truncated
SaveOpenW(w) ==
    /\ writers[w].pc = "out"
    /\ \E t \in Topics, b \in RaceBatches :
         /\ files' = (filename(DIGEST, t, today) :> << >>) @@ files
         /\ writers' = [writers EXCEPT ![w] =
                [pc |-> "open", path |-> filename(DIGEST, t, today),
                 records |-> saveRecords(b), pos |-> 0]]
    /\ UNCHANGED <<registry, today, uuids, pc, locals, result, backend,
                   trace, files0, reply,
                   oauth>>

\* f.write(json.dumps(record) + '\n') fills the buffer and the line goes to
\* the file at the position of the process
SaveFlushW(w) ==
    /\ writers[w].pc = "open"
    /\ writers[w].pos < Len(writers[w].records)
    /\ files' = [files EXCEPT ![writers[w].path] =
            WriteAt(@, writers[w].pos,
                    <<json_dumps(writers[w].records[writers[w].pos + 1])>>)]
    /\ writers' = [writers EXCEPT ![w].pos = @ + 1]
    /\ UNCHANGED <<registry, today, uuids, pc, locals, result, backend,
                   trace, files0, reply,
                   oauth>>

\* the with block is left: the lines still in the buffer go to the file and
\* the file is closed
SaveCloseW(w) ==
    /\ writers[w].pc = "open"
    /\ files' = [files EXCEPT ![writers[w].path] =
            WriteAt(@, writers[w].pos,
                    LinesFrom(writers[w].records, writers[w].pos))]
    /\ writers' = [writers EXCEPT ![w].pc = "closed",
                                  ![w].pos = Len(writers[w].records)]
    /\ UNCHANGED <<registry, today, uuids, pc, locals, result, backend,
                   trace, files0, reply,
                   oauth>>

\* save_jsonl has returned to its caller
SaveReturnW(w) ==
    /\ writers[w].pc = "closed"
    /\ writers' = [writers EXCEPT ![w] = NoWriter]
    /\ UNCHANGED <<registry, files, today, uuids, pc, locals, result,
                   backend, trace, files0, reply,
                   oauth>>

RaceNext ==
    \/ \E w \in Writers : SaveOpenW(w)
    \/ \E w \in Writers : SaveFlushW(w)
    \/ \E w \in Writers : SaveCloseW(w)
    \/ \E w \in Writers : SaveReturnW(w)

RaceSpec == Init /\ [][RaceNext]_vars

(***************************************************************************)
(* generate_tweets applied to the answers of the backend: backend is the   *)
(* outcome of client.responses.create, tweets the number asked for and     *)
(* result what the call returned or raised.                                *)
(***************************************************************************)
ParserInit ==
    /\ registry = InitRegistry
    /\ files = NoFiles
    /\ today = 1
    /\ uuids = 0
    /\ pc = "parse"
    /\ topic = << >>
    /\ tweets \in 0..MaxTweets
    /\ provider = "openai"
    /\ llm = "OpenAILLM"
    /\ bullets = << >>
    /\ drafts = << >>
    /\ refined = << >>
    /\ ranked = << >>
    /\ result = Ret(None)
    /\ backend \in ParserResponses
    /\ trace = << >>
    /\ files0 = NoFiles
    /\ reply = NoReply
    /\ writers = [w \in Writers |-> NoWriter]
    /\ NoLogin

GenerateTweets ==
    /\ pc = "parse"
    /\ result' = generate_tweets(backend, tweets)
    /\ pc' = "parsed"
    /\ UNCHANGED <<store, locals, backend, trace, files0, reply, writers,
                   oauth>>

ParserNext == GenerateTweets

ParserSpec == ParserInit /\ [][ParserNext]_vars

(***************************************************************************)
(* generate_tweets applied to the text of the answers of the backend.      *)
(***************************************************************************)
TextInit ==
    /\ registry = InitRegistry
    /\ files = NoFiles
    /\ today = 1
    /\ uuids = 0
    /\ pc = "parse_text"
    /\ topic = << >>
    /\ tweets \in 0..MaxTweets
    /\ provider = "openai"
    /\ llm = "OpenAILLM"
    /\ bullets = << >>
    /\ drafts = << >>
    /\ refined = << >>
    /\ ranked = << >>
    /\ result = Ret(None)
    /\ backend \in TextResponses
    /\ trace = << >>
    /\ files0 = NoFiles
    /\ reply = NoReply
    /\ writers = [w \in Writers |-> NoWriter]
    /\ NoLogin

GenerateTweetsText ==
    /\ pc = "parse_text"
    /\ result' = generate_tweets_text(backend, tweets)
    /\ pc' = "parsed_text"
    /\ UNCHANGED <<store, locals, backend, trace, files0, reply, writers,
                   oauth>>

TextNext == GenerateTweetsText

TextSpec == TextInit /\ [][TextNext]_vars

(***************************************************************************)
(* generate of the backends the repository ships: llm is the class of the  *)
(* instance and backend the outcome of the call.                           *)
(***************************************************************************)
\* the classes decorated with @register in llm/providers
ShippedClasses == {"OpenAILLM", "GroqLLM", "OllamaLLM", "CerebrasLLM"}

\* the texts a backend answers with
AnswerTexts ==
    CollectResponses \cup DraftResponses \cup RankResponses
    \cup {MarkdownText(d) : d \in MarkdownAnswers}

ProviderInit ==
    /\ registry = InitRegistry
    /\ files = NoFiles
    /\ today = 1
    /\ uuids = 0
    /\ pc = "generate"
    /\ topic = << >>
    /\ tweets = 0
    /\ provider = ""
    /\ llm \in ShippedClasses
    /\ bullets = << >>
    /\ drafts = << >>
    /\ refined = << >>
    /\ ranked = << >>
    /\ result = Ret(None)
    /\ backend = Ret(<< >>)
    /\ trace = << >>
    /\ files0 = NoFiles
    /\ reply = NoReply
    /\ writers = [w \in Writers |-> NoWriter]
    /\ NoLogin

\* llm.generate(prompt)
Generate ==
    /\ pc = "generate"
    /\ backend' \in generate(llm, AnswerTexts)
    /\ pc' = "generated"
    /\ UNCHANGED <<store, topic, tweets, provider, llm, bullets, drafts,
                   refined, ranked, result, trace, files0, reply, writers,
                   oauth>>

ProviderNext == Generate

ProviderSpec == ProviderInit /\ [][ProviderNext]_vars

(***************************************************************************)
(* format_for_twitter applied to tweets and hashtags: drafts holds the     *)
(* tweets, bullets the hashtags and result what the call returned.         *)
(***************************************************************************)
FormatInit ==
    /\ registry = InitRegistry
    /\ files = NoFiles
    /\ today = 1
    /\ uuids = 0
    /\ pc = "format"
    /\ topic = << >>
    /\ tweets = 0
    /\ provider = "openai"
    /\ llm = "OpenAILLM"
    /\ bullets \in FormatHashtags
    /\ drafts \in UNION {[1..k -> FormatObjects] : k \in 1..MaxTweets}
    /\ refined = << >>
    /\ ranked = << >>
    /\ result = Ret(None)
    /\ backend = Ret(<< >>)
    /\ trace = << >>
    /\ files0 = NoFiles
    /\ reply = NoReply
    /\ writers = [w \in Writers |-> NoWriter]
    /\ NoLogin

FormatForTwitter ==
    /\ pc = "format"
    /\ result' = format_for_twitter(drafts, bullets)
    /\ pc' = "formatted"
    /\ UNCHANGED <<store, locals, backend, trace, files0, reply, writers,
                   oauth>>

FormatNext == FormatForTwitter

FormatSpec == FormatInit /\ [][FormatNext]_vars

(***************************************************************************)
(* auth.py: login.  The steps of one call are taken one after the other;   *)
(* the callback server answers requests on its own thread in between, and  *)
(* so does a thread of shutdown_server that outlived its join.  A verifier *)
(* is named by the call of login whose request token it belongs to.        *)
(***************************************************************************)
\* the platforms login is asked for
Platforms == {"twitter", "mastodon"}

\* what a callback request carries as oauth_verifier: None without the
\* parameter, otherwise the verifier of the authorization begun last
Verifiers == {None} \cup (IF request # 0 THEN {Some(request)} ELSE {})

\* except Exception as e: raise Exception(f"Twitter login failed: {e}")
LoginFail(msg) ==
    /\ pc' = "exited"
    /\ result' = Raise("Exception", <<"Twitter login failed: ">> \o msg)

\* shutdown_server(server): the thread that shuts the server down and
\* closes its socket has finished within the timeout of join, or is still
\* blocked in server.shutdown() when join gives up
shutdown_server ==
    IF server = "down" THEN {[server |-> "down", stopping |-> FALSE]}
    ELSE {[server |-> "down", stopping |-> FALSE],
          [server |-> "up", stopping |-> TRUE]}

\* login(platform) up to the return of start_callback_server()
LoginStart ==
    /\ pc = "idle"
    /\ logins < MaxLogins
    /\ logins' = logins + 1
    /\ request' = 0
    /\ heard' = {}
    /\ sent' = None
    /\ \E platform \in Platforms :
         IF platform # "twitter"
         THEN /\ pc' = "exited"
              /\ result' = Raise("ValueError",
                                 <<"Unsupported platform: ", platform>>)
              /\ started' = FALSE
              /\ UNCHANGED server
         ELSE IF server = "up"
         THEN /\ LoginFail(<<"Port 8000 is already in use. ",
                             "Please choose a different port.">>)
              /\ started' = FALSE
              /\ UNCHANGED server
         ELSE /\ server' = "up"
              /\ started' = TRUE
              /\ pc' = "credentials"
              /\ UNCHANGED result
    /\ UNCHANGED <<store, locals, backend, trace, files0, reply, writers,
                   verifier, stopping, token_file>>

\* consumer_key, consumer_secret = get_twitter_credentials(): the keys of
\* the environment or of the prompt, or EOFError from input()
LoginCredentials ==
    /\ pc = "credentials"
    /\ \E ok \in BOOLEAN :
         IF ok THEN pc' = "handler" /\ UNCHANGED result
         ELSE LoginFail(<<"EOF when reading a line">>)
    /\ UNCHANGED <<store, locals, backend, trace, files0, reply, writers,
                   oauth>>

\* auth = tweepy.OAuth1UserHandler(consumer_key, consumer_secret, callback)
LoginHandler ==
    /\ pc = "handler"
    /\ \E ok \in BOOLEAN :
         IF ok THEN pc' = "authorize" /\ UNCHANGED result
         ELSE LoginFail(<<"Consumer key must be string or bytes">>)
    /\ UNCHANGED <<store, locals, backend, trace, files0, reply, writers,
                   oauth>>

\* redirect_url = auth.get_authorization_url(); webbrowser.open(...), or
\* TweepyException, after which the handler shuts the server down
LoginAuthorize ==
    /\ pc = "authorize"
    /\ \/ /\ request' = logins
          /\ pc' = "wait"
          /\ UNCHANGED <<result, server, stopping>>
       \/ \E s \in shutdown_server :
            /\ server' = s.server
            /\ stopping' = s.stopping
            /\ LoginFail(<<"Failed to complete authentication: ",
                           "Unable to get request token">>)
            /\ UNCHANGED request
    /\ UNCHANGED <<store, locals, backend, trace, files0, reply, writers,
                   verifier, logins, started, heard, sent, token_file>>

\* the loop "while not OAuthCallbackHandler.verifier": it is left when the
\* attribute holds a verifier, and by the timeout while it holds none; the
\* server is shut down either way
LoginWait ==
    /\ pc = "wait"
    /\ \E s \in shutdown_server :
         /\ server' = s.server
         /\ stopping' = s.stopping
    /\ IF verifier # None
       THEN pc' = "exchange" /\ UNCHANGED result
       ELSE LoginFail(<<"Authentication timed out. Please try again.">>)
    /\ UNCHANGED <<store, locals, backend, trace, files0, reply, writers,
                   verifier, logins, started, request, heard, sent,
                   token_file>>

\* auth.get_access_token(OAuthCallbackHandler.verifier): the backend gives
\* the access token for the verifier of this call's request token only;
\* TweepyException otherwise or when the request fails, and the handler
\* shuts the server down once more
LoginExchange ==
    /\ pc = "exchange"
    /\ sent' = verifier
    /\ \/ /\ verifier = Some(request)
          /\ pc' = "save"
          /\ UNCHANGED <<result, server, stopping>>
       \/ \E s \in shutdown_server :
            /\ server' = s.server
            /\ stopping' = s.stopping
            /\ LoginFail(<<"Failed to complete authentication: ",
                           "401 Unauthorized">>)
    /\ UNCHANGED <<store, locals, backend, trace, files0, reply, writers,
                   verifier, logins, started, request, heard, token_file>>

\* with open(TOKEN_PATH, "w") as f: json.dump(tokens, f); os.chmod(...):
\* written, not opened, or opened and cut short
LoginSave ==
    /\ pc = "save"
    /\ \E io \in {"ok", "eopen", "ewrite"} :
         CASE io = "ok" ->
                /\ token_file' = Some([login |-> logins, verifier |-> sent])
                /\ pc' = "exited"
                /\ result' = Ret(None)
           [] io = "eopen" ->
                /\ LoginFail(<<"Permission denied">>)
                /\ UNCHANGED token_file
           [] io = "ewrite" ->
                /\ token_file' = Some(<< >>)
                /\ LoginFail(<<"No space left on device">>)
    /\ UNCHANGED <<store, locals, backend, trace, files0, reply, writers,
                   verifier, server, stopping, logins, started, request,
                   heard, sent>>

\* login has returned or raised
LoginReturn ==
    /\ pc = "exited"
    /\ pc' = "idle"
    /\ UNCHANGED <<store, locals, result, backend, trace, files0, reply,
                   writers, oauth>>

\* OAuthCallbackHandler.do_GET for a request to /callback
Callback ==
    /\ server = "up"
    /\ \E v \in Verifiers :
         /\ verifier' = v
         /\ heard' = IF pc \in {"idle", "exited"} THEN heard
                     ELSE heard \cup {v}
    /\ UNCHANGED <<store, locals, pc, result, backend, trace, files0, reply,
                   writers, server, stopping, logins, started, request, sent,
                   token_file>>

\* the thread of shutdown_server gets through server.shutdown() and
\* server.server_close() after all
ShutdownThread ==
    /\ stopping
    /\ server' = "down"
    /\ stopping' = FALSE
    /\ UNCHANGED <<store, locals, pc, result, backend, trace, files0, reply,
                   writers, verifier, logins, started, request, heard, sent,
                   token_file>>

LoginNext ==
    \/ LoginStart
    \/ LoginCredentials
    \/ LoginHandler
    \/ LoginAuthorize
    \/ LoginWait
    \/ LoginExchange
    \/ LoginSave
    \/ LoginReturn
    \/ Callback
    \/ ShutdownThread

LoginSpec == Init /\ [][LoginNext]_vars

(***************************************************************************)
(* Properties.                                                             *)
(***************************************************************************)
Last(q) == q[Len(q)]

\* sub occurs in msg
Contains(msg, sub) ==
    \E i \in 0..(Len(msg) - Len(sub)) : SubSeq(msg, i + 1, i + Len(sub)) = sub

Terminal == pc \in {"done", "failed"}

\* the positions of the trace at which rank was called
RankCalls == {k \in 1..Len(trace) : trace[k].step = "rank"}

StepOrder == <<"lookup", "collect", "draft", "refine", "rank", "save">>

\* the calls made so far follow the fixed order, each once, each after the
\* success of the one before and on its output, and the run is over exactly
\* when a call has failed or save has succeeded
RunOrderState ==
    /\ Len(trace) <= Len(StepOrder)
    /\ \A k \in 1..Len(trace) : trace[k].step = StepOrder[k]
    /\ \A k \in 1..(Len(trace) - 1) : trace[k].out.ok
    /\ Len(trace) >= 2 => trace[2].llm = trace[1].out.val
    /\ Len(trace) >= 3 => /\ trace[3].arg = trace[2].out.val
                          /\ trace[3].llm = trace[1].out.val
    /\ Len(trace) >= 4 => trace[4].arg = trace[3].out.val
    /\ Len(trace) >= 5 => /\ trace[5].arg = trace[4].out.val
                          /\ trace[5].llm = trace[1].out.val
    /\ Len(trace) >= 6 => trace[6].arg = trace[5].out.val
    /\ Terminal <=> (trace # << >>
                     /\ (~Last(trace).out.ok \/ Len(trace) = Len(StepOrder)))
    /\ pc = "done" <=> (Len(trace) = Len(StepOrder) /\ Last(trace).out.ok)

\* a run makes its calls one after the other and none once it is over
RunOrderStep ==
    /\ trace' = trace \/ trace' = << >>
       \/ (Len(trace') > Len(trace) /\ SubSeq(trace', 1, Len(trace)) = trace)
    /\ Terminal => (trace' = trace \/ (trace' = << >> /\ pc' = "idle"))

\* C1: in every execution of run the steps happen in the order lookup,
\* collect, draft, refine, rank, save, each at most once, each only after
\* the previous one returned successfully and on exactly its output, and
\* the run is terminal after the first failure or after save succeeded
C1_RunOrder == [](RunOrderState) /\ [][RunOrderStep]_vars

\* a run that got as far as calling rank on a non-empty list, and is over
C1_Witness ==
    /\ pc = "failed"
    /\ Len(trace) = 5
    /\ trace[5].arg # << >>

\* C2: if lookup, collect, draft, refine or rank fails, save is not invoked
\* in that run and the draft files and their contents are those the run
\* found when it started
C2_NoPartialPersistence ==
    (pc = "failed" /\ Last(trace).step # "save")
    => /\ files = files0
       /\ \A k \in 1..Len(trace) : trace[k].step # "save"

\* a run that failed at rank over a drafts directory that holds a file
C2_Witness ==
    /\ pc = "failed"
    /\ Last(trace).step = "rank"
    /\ DOMAIN files0 # {}
    /\ files = files0

\* C3: whenever a step of run fails, run raises a PipelineError whose
\* message contains the message of the step's error (and through it the
\* message of the backend failure behind it); no other kind of error leaves
\* run, and run returns no path once a step has failed
C3_PipelineError ==
    /\ (trace # << >> /\ ~Last(trace).out.ok)
       => /\ pc = "failed"
          /\ ~result.ok
          /\ result.err.kind = "PipelineError"
          /\ Contains(result.err.msg, Last(trace).out.err.msg)
    /\ pc = "failed" => (trace # << >> /\ ~Last(trace).out.ok /\ ~result.ok)
    /\ (pc = "failed" /\ Last(trace).step \in {"collect", "draft"}
        /\ ~backend.ok)
       => Contains(result.err.msg, backend.err.msg)
    /\ (Terminal /\ result.ok) => \A k \in 1..Len(trace) : trace[k].out.ok

\* draft failed because the backend call failed, and run has raised
C3_Witness ==
    /\ pc = "failed"
    /\ Last(trace).step = "draft"
    /\ ~backend.ok
    /\ result.err.kind = "PipelineError"

\* the texts of the rankings of a set
Texts(rankings) == {RankText(ls) : ls \in rankings}

\* the candidate of list q that has the id of candidate c
ById(q, c) == q[CHOOSE j \in 1..Len(q) : q[j].id = c.id]

\* the position of the candidate with c's id in list q
Pos(q, c) == CHOOSE j \in 1..Len(q) : q[j].id = c.id

\* q holds the candidates of a, each once, with the same ids and texts
SameCandidates(q, a) ==
    /\ Len(q) = Len(a)
    /\ \A p \in 1..Len(a) :
         Cardinality({j \in 1..Len(q) : q[j].id = a[p].id}) = 1
    /\ \A p \in 1..Len(a) : ById(q, a[p]).text = a[p].text

\* q is in descending order of score, None counting as 0
Descending(q) ==
    \A j \in 1..(Len(q) - 1) :
        FloatGE(scoreOrZero(q[j]), scoreOrZero(q[j + 1]))

\* candidates of q with equal effective scores stand in the order of a
StableWrt(q, a) ==
    \A j, j2 \in 1..Len(q) :
        (j < j2 /\ scoreOrZero(q[j]) = scoreOrZero(q[j2]))
        => Pos(a, q[j]) < Pos(a, q[j2])

\* C4: when every stage succeeds (the provider is found, the backend
\* answers collect, draft and rank, the ranking is well-formed and the file
\* system takes the write), run returns the path of an existing file that
\* holds one record per candidate of the Draft Writer, same ids and texts,
\* in the Ranker's order, scores non-increasing
C4_RunReturnsRankedFile ==
    (/\ Terminal
     /\ Len(trace) >= 5
     /\ backend.ok
     /\ backend.val \in Texts(WellFormedRankings)
     /\ Len(trace) = 6 => trace[6].out.ok)
    => /\ pc = "done"
       /\ result.ok
       /\ result.val \in DOMAIN files
       /\ files[result.val] = [j \in 1..Len(ranked) |-> json_dumps(ranked[j])]
       /\ SameCandidates(ranked, drafts)
       /\ Descending(ranked)

\* C5: rank fails, and then with WriterError, only when the provider's
\* generate call fails; a TWEET line without index token, with a
\* non-numeric index or a non-numeric score is skipped and rank returns
C5_RankFailsOnlyOnBackendFailure ==
    \A k \in RankCalls :
        ~trace[k].out.ok
        => (~backend.ok /\ trace[k].out.err.kind = "WriterError")

\* C6: a ranking line whose index is outside 1..len(candidates) is skipped:
\* rank returns and no candidate, at any position, has got a score or a
\* reason from it
C6_OutOfRangeLineIgnored ==
    \A k \in RankCalls :
        (backend.ok /\ backend.val \in Texts(OutOfRangeRankings))
        => /\ trace[k].out.ok
           /\ \A j \in 1..Len(trace[k].out.val) :
                /\ trace[k].out.val[j].score = None
                /\ trace[k].out.val[j].reason = None

\* what the lines ls say about the candidate at input position p: the
\* score and reason of the line that names p, None when no line does
Expected(ls, p) ==
    IF \E j \in 1..Len(ls) : int(ls[j].i).val = p
    THEN LET j == CHOOSE j \in 1..Len(ls) : int(ls[j].i).val = p
         IN [score |-> Some(float(ls[j].s).val), reason |-> Some(ls[j].r)]
    ELSE [score |-> None, reason |-> None]

\* rank, called on a with the backend answering the lines ls, has given
\* every candidate what the lines say
AssignedAsWritten(k, ls) ==
    LET a == trace[k].arg IN
    /\ trace[k].out.ok
    /\ \A p \in 1..Len(a) :
         /\ ById(trace[k].out.val, a[p]).score = Expected(ls, p).score
         /\ ById(trace[k].out.val, a[p]).reason = Expected(ls, p).reason

\* C7: for a response of well-formed lines "TWEET i: SCORE s - reason" with
\* 1 <= i <= number of candidates, after rank the candidate that stood at
\* input position i has score s and that reason, and every candidate no
\* line references has neither
C7_WellFormedLinesAssigned ==
    \A k \in RankCalls : \A ls \in WellFormedRankings :
        (/\ backend.ok
         /\ backend.val = RankText(ls)
         /\ \A j \in 1..Len(ls) : int(ls[j].i).val <= Len(trace[k].arg))
        => AssignedAsWritten(k, ls)

\* C8: a line "TWEET i: SCORE s - r" whose reason r contains further ':' or
\* '-' characters still gives the candidate at index i - 1 the score s and
\* the whole of r as its reason
C8_SplitOnFirstSeparatorOnly ==
    \A k \in RankCalls : \A ls \in PunctuatedRankings :
        (/\ backend.ok
         /\ backend.val = RankText(ls)
         /\ \A j \in 1..Len(ls) : int(ls[j].i).val <= Len(trace[k].arg))
        => AssignedAsWritten(k, ls)

\* C9: the list rank returns is in descending order of score, None counting
\* as 0, and candidates of equal effective score keep the relative order
\* they had in rank's input
C9_SortedDescendingStable ==
    \A k \in RankCalls :
        backend.ok
        => /\ trace[k].out.ok
           /\ Descending(trace[k].out.val)
           /\ StableWrt(trace[k].out.val, trace[k].arg)

\* C10: rank returns a permutation of its input, same ids and texts, none
\* added, dropped or duplicated; draft sets no score, and save changes no
\* text
C10_RankReturnsPermutation ==
    /\ \A k \in RankCalls :
         backend.ok
         => /\ trace[k].out.ok
            /\ SameCandidates(trace[k].out.val, trace[k].arg)
    /\ \A k \in 1..Len(trace) :
         (trace[k].step = "draft" /\ trace[k].out.ok)
         => \A j \in 1..Len(trace[k].out.val) :
                trace[k].out.val[j].score = None
    /\ \A k \in 1..Len(trace) :
         (trace[k].step = "save" /\ trace[k].out.ok)
         => \A j \in 1..Len(trace[k].arg) :
                files[trace[k].out.val][j][2][2].s = trace[k].arg[j].text

\* the smaller of two numbers
Min(a, b) == IF a < b THEN a ELSE b

\* C11: when draft has returned for a backend response, it has returned one
\* candidate for each of the first n lines that carry the TWEET: marker
\* (leading whitespace allowed), in line order, the text of each being what
\* follows the marker on the line, trimmed
C11_DraftExtractsMarkerLines ==
    (pc = "refine" /\ backend.ok) =>
        LET ls == draftLines(split(backend.val, NL)) IN
        /\ Len(drafts) = Min(tweets, Len(ls))
        /\ \A k \in 1..Len(drafts) :
             drafts[k].text = strip(SliceFrom(strip(ls[k]), 6))

\* the ids of a list of candidates
Ids(q) == {q[k].id : k \in 1..Len(q)}

\* no two candidates of the list share an id
DistinctIds(q) == \A i, j \in 1..Len(q) : i # j => q[i].id # q[j].id

\* the ids of the records of a stored file
FileIds(lines) == {lines[k][1][2].s : k \in 1..Len(lines)}

\* C12: within a run the candidates draft returned have pairwise distinct
\* ids drawn in this process; what refine and rank returned carries exactly
\* those ids, and so does the file a finished run has saved
C12_IdsAssignedOnce ==
    /\ DistinctIds(drafts)
    /\ Ids(drafts) \subseteq 1..uuids
    /\ \A k \in 1..Len(trace) :
         (trace[k].step \in {"refine", "rank"} /\ trace[k].out.ok) =>
             /\ Ids(trace[k].out.val) = Ids(drafts)
             /\ DistinctIds(trace[k].out.val)
    /\ pc = "done" => FileIds(files[result.val]) = Ids(drafts)

\* refine has returned two candidates
C12_Witness ==
    /\ pc = "rank"
    /\ Len(drafts) = 2
    /\ Last(trace).step = "refine"
    /\ Len(Last(trace).out.val) = 2

\* C14: what refine returned has as many candidates as it was given, with
\* the same ids in the same order and the same score and reason
C14_RefineKeepsCandidates ==
    \A k \in 1..Len(trace) :
        (trace[k].step = "refine" /\ trace[k].out.ok) =>
            LET a == trace[k].arg
                q == trace[k].out.val
            IN /\ Len(q) = Len(a)
               /\ \A j \in 1..Len(a) :
                    /\ q[j].id = a[j].id
                    /\ q[j].score = a[j].score
                    /\ q[j].reason = a[j].reason

\* refine has been given two candidates and has returned
C14_Witness ==
    /\ Len(trace) >= 4
    /\ trace[4].step = "refine"
    /\ Len(trace[4].arg) = 2
    /\ trace[4].out.ok

\* score and reason of a candidate are both there or both missing
BothOrNeither(t) == (t.score = None) <=> (t.reason = None)

AllBothOrNeither(q) == \A k \in 1..Len(q) : BothOrNeither(q[k])

\* a call that has returned candidates has returned them with both or neither
ReturnsBothOrNeither(r) == r.ok => AllBothOrNeither(r.val)

\* C13: at every point of a run each candidate has its score and its reason
\* both or neither: draft returns candidates with neither, the loop of rank
\* leaves every candidate with both or neither whatever the backend answers,
\* and so has every candidate load reads back from a saved file
C13_ScoreAndReasonTogether ==
    /\ AllBothOrNeither(drafts)
    /\ AllBothOrNeither(refined)
    /\ AllBothOrNeither(ranked)
    /\ \A k \in 1..Len(trace) :
         /\ (trace[k].step \in {"draft", "refine", "rank"} /\ trace[k].out.ok)
                => AllBothOrNeither(trace[k].out.val)
         /\ (trace[k].step = "draft" /\ trace[k].out.ok) =>
                \A j \in 1..Len(trace[k].out.val) :
                    /\ trace[k].out.val[j].score = None
                    /\ trace[k].out.val[j].reason = None
    /\ pc = "rank" =>
         \A text \in RankResponses :
             ReturnsBothOrNeither(rankTry(refined, Ret(text)))
    /\ reply.op = "load" => AllBothOrNeither(reply.out.val)

\* a call that has returned two candidates, the first of them scored
ScoresFirstOnly(r) ==
    r.ok /\ r.val[1].score # None /\ r.val[2].score = None

\* two drafted candidates are about to be ranked, and some answer of the
\* backend makes the loop of rank score the first of them
C13_Witness ==
    /\ pc = "rank"
    /\ Len(refined) = 2
    /\ \E text \in RankResponses :
         ScoresFirstOnly(rankTry(refined, Ret(text)))

\* C15: a load of the path that the last save returned yields the candidates
\* that were saved: as many, in the same order, with the same id, text,
\* score and reason
C15_SaveLoadRoundTrip ==
    [][(/\ reply.op = "save"
        /\ reply.out.ok
        /\ reply'.op = "load"
        /\ reply'.name = reply.out.val)
       => reply'.out = Ret(reply.tweets)]_vars

\* load has read back a saved batch of two candidates, one of them without
\* score and reason
C15_Witness ==
    /\ reply.op = "load"
    /\ reply.name \in DOMAIN files
    /\ Len(reply.out.val) = 2
    /\ reply.out.val[1].score # None
    /\ reply.out.val[2].score = None
    /\ reply.out.val[2].reason = None

\* the lines of a file that holds exactly the given candidates
LinesOf(batch) ==
    [j \in 1..Len(batch) |-> json_dumps(saveRecords(batch)[j])]

\* C16: a save that follows a save of the same category and topic on the
\* same day returns the same path, and the file then holds the records of
\* the second batch and nothing else
C16_SecondSaveOverwrites ==
    [][(/\ reply.op = "save" /\ reply.out.ok
        /\ reply'.op = "save" /\ reply'.out.ok
        /\ reply'.category = reply.category
        /\ reply'.name = reply.name
        /\ reply'.day = reply.day)
       => /\ reply'.out.val = reply.out.val
          /\ files'[reply'.out.val] = LinesOf(reply'.tweets)]_vars

\* a batch of two candidates has been saved over the file that held two
\* records: the file holds two records, not four
C16_Witness ==
    /\ reply.op = "save"
    /\ reply.out.ok
    /\ Len(reply.tweets) = 2
    /\ reply.old # None
    /\ Len(reply.old[1]) = 2
    /\ Len(files[reply.out.val]) = 2
    /\ files[reply.out.val] = LinesOf(reply.tweets)

\* the day in the name of a draft file: the last digit of its date
DayOf(f) == DigitVal(f[Len(f) - 6])

\* the name of the file begins with the category and the topic of the call
NamedFor(f, call) ==
    startswith(f, call.category \o <<"_">> \o call.name \o <<"_">>)

Ascending(q) ==
    \A i, j \in 1..Len(q) : i < j => q[i] # q[j] /\ PathLE(q[i], q[j])

\* C19: list_drafts(category) returns, in ascending order of their names,
\* exactly the draft files whose name begins with the category followed by
\* an underscore, and all draft files when no category is given
C19_ListDraftsByPrefix ==
    reply.op = "list" =>
        /\ reply.out.ok
        /\ Ascending(reply.out.val)
        /\ {reply.out.val[k] : k \in 1..Len(reply.out.val)}
             = {f \in DOMAIN files :
                   reply.category = None
                   \/ startswith(f, reply.category \o <<"_">>)}

\* C18: when two processes have saved to the same file at the same time and
\* both have finished, the file holds exactly the complete batch of one of
\* them
C18_ConcurrentSavesLastWriteWins ==
    (/\ \A w \in Writers : writers[w].pc = "closed"
     /\ writers[1].path = writers[2].path)
    => \E w \in Writers :
          files[writers[w].path]
            = [j \in 1..Len(writers[w].records) |->
                  json_dumps(writers[w].records[j])]

\* a text without the whitespace and the quotation marks around it
Unquoted(s) ==
    LET t == strip(s) IN
    IF Len(t) >= 2 /\ Head(t) = "\"" /\ t[Len(t)] = "\""
    THEN strip(SubSeq(t, 2, Len(t) - 1))
    ELSE t

\* the trimmed texts of the objects that are not empty, in order
RECURSIVE Kept(_)
Kept(objs) ==
    IF objs = << >> THEN << >>
    ELSE IF Unquoted(Head(objs)["text"]) = << >> THEN Kept(Tail(objs))
         ELSE <<Unquoted(Head(objs)["text"])>> \o Kept(Tail(objs))

\* every text of the list is within the length cap
AllShort(objs) == \A k \in 1..Len(objs) : Len(objs[k]["text"]) <= TWEET_MAX

\* C20: for a structured list of objects with short texts that has a text
\* left after trimming, generate_tweets returns the first n of the trimmed,
\* non-empty texts, in the order of the list
C20_StructuredListParsed ==
    (/\ pc = "parsed" /\ backend.ok /\ backend.val # None
     /\ AllShort(backend.val[1])
     /\ tweets >= 1
     /\ Kept(backend.val[1]) # << >>)
    => /\ result.ok
       /\ [k \in 1..Len(result.val) |-> result.val[k].text]
            = sliceTo(Kept(backend.val[1]), tweets)


\* the trimmed text of the k-th object of the structured list
Trimmed(k) == strip(getStr(backend.val[1][k], "text"))

\* C21: a returned text whose trimmed source is longer than 280 characters
\* is the first 279 characters of the source followed by the truncation
\* marker, 280 characters in all; a shorter source is returned unchanged
C21_TruncatedToMaxLength ==
    (pc = "parsed" /\ backend.ok /\ backend.val # None /\ result.ok)
    => \A k \in 1..Len(result.val) :
          IF Len(Trimmed(k)) > TWEET_MAX
          THEN /\ result.val[k].text
                    = SubSeq(Trimmed(k), 1, TWEET_MAX - 1) \o ELLIPSIS
               /\ Len(result.val[k].text) = TWEET_MAX
          ELSE result.val[k].text = Trimmed(k)

\* C22: when no object of the list has a text left after trimming,
\* generate_tweets fails; a list it returns is not empty and holds no
\* candidate with an empty text
C22_NoEmptySuccess ==
    (pc = "parsed" /\ backend.ok /\ backend.val # None)
    => /\ (\A k \in 1..Len(backend.val[1]) : Trimmed(k) = << >>)
            => ~result.ok
       /\ result.ok
            => /\ result.val # << >>
               /\ \A k \in 1..Len(result.val) : result.val[k].text # << >>

\* the candidates the blocks of a Markdown answer stand for
BlockCandidates(d) ==
    [i \in 1..Len(d.blocks) |->
        [text |-> d.blocks[i].body, image_prompt |-> d.blocks[i].img,
         alt_text |-> d.blocks[i].alt]]

\* the candidates the objects of a JSON answer stand for
JsonCandidates(d) ==
    [i \in 1..Len(d.texts) |->
        [text |-> d.texts[i], image_prompt |-> None, alt_text |-> None]]

\* C23: for an answer of k labelled blocks generate_tweets returns one
\* candidate per block, in order, the body as text and the image prompt
\* apart from it; for an answer that is a JSON list the candidates are the
\* objects of the list, whatever labels their texts hold
C23_MarkdownBlocksParsed ==
    (pc = "parsed_text" /\ backend.ok /\ backend.val # None /\ tweets >= 1)
    => /\ \A d \in MarkdownAnswers :
            backend.val[1] = MarkdownText(d)
            => /\ result.ok
               /\ result.val = sliceTo(BlockCandidates(d), tweets)
       /\ \A d \in JsonAnswers :
            (backend.val[1] = JsonText(d) /\ d.texts # << >>)
            => /\ result.ok
               /\ result.val = sliceTo(JsonCandidates(d), tweets)

\* the outcome of the lookup of the run in progress
Lookup == trace[1].out

LookupState ==
    (pc # "idle" /\ trace # << >>)
    => /\ trace[1].step = "lookup"
       /\ \A k \in 2..Len(trace) : trace[k].step # "lookup"
       /\ Lookup.ok
            => (provider \in DOMAIN registry /\ Lookup.val = registry[provider])
       /\ provider \notin DOMAIN registry
            => /\ Lookup = Raise("ValueError",
                                 <<"Unknown LLM provider: ", provider>>)
               /\ Len(trace) = 1
               /\ pc = "failed"
       /\ (~Lookup.ok /\ provider \in DOMAIN registry)
            => Lookup.err.kind \in {"LLMError", "OpenAIError"}

\* no step of a run changes the registry
LookupStep == pc # "idle" => registry' = registry

C25_GenerateTextOrLLMError ==
    pc = "generated" => (backend.ok \/ backend.err.kind = "LLMError")

\* the names the classes of llm/providers register themselves under
ShippedNames == {"openai", "groq", "ollama", "cerebras"}

\* C26: while a run is in progress the registry holds every shipped
\* backend, so that the lookup of such a name does not end in the
\* unknown-provider error
C26_ShippedBackendsRegistered ==
    pc # "idle"
    => /\ ShippedNames \subseteq DOMAIN registry
       /\ (trace # << >> /\ provider \in ShippedNames /\ ~Lookup.ok)
            => Lookup.err.kind # "ValueError"

\* the texts of the tweets that are not blank
RECURSIVE Bodies(_)
Bodies(ts) ==
    IF ts = << >> THEN << >>
    ELSE IF strip(Head(ts)["text"]) = << >> THEN Bodies(Tail(ts))
         ELSE <<strip(Head(ts)["text"])>> \o Bodies(Tail(ts))

\* C27: format_for_twitter returns one string for every tweet whose text
\* is not blank, no string longer than 280 characters, and a tweet that
\* fits with its hashtags is the body, a blank line and the hashtags
C27_FormattedWithinLimit ==
    pc = "formatted"
    => /\ result.ok
       /\ Len(result.val) = Len(Bodies(drafts))
       /\ \A k \in 1..Len(result.val) :
            /\ Len(result.val[k]) <= TWEET_MAX
            /\ Len(tagged(Bodies(drafts)[k], tagBlock(bullets))) <= TWEET_MAX
                 => result.val[k] = tagged(Bodies(drafts)[k], tagBlock(bullets))

\* C28: a run whose draft step returned no candidate goes on to rank and
\* save; unless the write itself fails, it returns the path of a draft
\* file that is empty and that load reads as the empty list
C28_EmptyDraftStillSaved ==
    (/\ Terminal
     /\ Len(trace) >= 3
     /\ trace[3].step = "draft"
     /\ trace[3].out.ok
     /\ trace[3].out.val = << >>)
    => /\ Last(trace).step = "save"
       /\ Last(trace).out.ok
            => /\ pc = "done"
               /\ result = Ret(filename(DIGEST, topic, today))
               /\ result.val \in DOMAIN files
               /\ files[result.val] = << >>
               /\ load(files, result.val) = Ret(<< >>)

\* the verifier a call of login exchanges is one a callback of that call
\* has carried
OwnVerifier == sent # None => sent \in heard

\* the token file is written only by the call that has exchanged a verifier
\* of its own
TokenStep ==
    token_file' # token_file
    => (pc = "save" /\ sent # None /\ sent \in heard)

\* C29: login writes the token file only after a callback received within
\* that call has carried the verifier and the exchange with it has
\* succeeded, and no call exchanges a verifier left over from an earlier one
C29_TokenAfterOwnCallback == [](OwnVerifier) /\ [][TokenStep]_vars

\* C30: when a call of login that has started the callback server returns
\* or raises, the server is shut down and its port is free
C30_ServerDownAtExit ==
    (pc = "exited" /\ started) => (server = "down" /\ ~stopping)
=============================================================================
